---------------------------- MODULE Spec2Model ----------------------------
(* A model of the snake engine of snake-core/src/lib.rs: Location geometry, *)
(* the fruit placement search and the Game state machine driven through    *)
(* the Snake trait (set_direction, advance, board).                        *)
EXTENDS Integers, Sequences, FiniteSets, TLC

VARIABLES
    width, height,        \* Game.width, Game.height
    snake,                \* Game.snake: the backing array, capacity width*height
    snake_size,           \* Game.snake_size: the logical length
    current_direction,    \* Game.current_direction: the committed direction
    next_direction,       \* Game.next_direction: the pending direction
    fruit,                \* Game.fruit
    status,               \* Game.status
    rng,                  \* position of the random source: values drawn so far
    panicked,             \* TRUE once an operation has panicked (the program is gone)
    op,                   \* the last operation called on the game
    ret,                  \* what that operation returned
    pre,                  \* the game's fields right before that operation
    call                  \* a call of a pure function: its arguments and result

gameVars == <<width, height, snake, snake_size, current_direction,
              next_direction, fruit, status, rng, panicked, op, ret, pre>>
vars == <<width, height, snake, snake_size, current_direction,
          next_direction, fruit, status, rng, panicked, op, ret, pre, call>>

-----------------------------------------------------------------------------
(* Bounds of the model.                                                    *)

\* boards of at most this many cells are explored ...
MaxCells == 6
\* ... with at most this many columns and at most this many rows
MaxSide == 3
\* the random source yields 0 .. MaxRand ...
MaxRand == 2
\* ... and the u32 values whose cast to i32 is -1 .. -MaxNegRand
MaxNegRand == 3
\* wrap is tried on coordinates -MaxCoord .. MaxCoord
MaxCoord == 4
\* wrap is tried on bounds 1 .. MaxBound
MaxBound == 3

\* with the canned random source, boards of up to MaxCannedCells cells are
\* played with any calls, larger boards along the scenarios only
MaxCannedCells == 9

\* two games are run side by side on boards of up to MaxTwinCells cells
MaxTwinCells == 6
\* and at a growth both get values 0 .. MaxTwinRand, or -1
MaxTwinRand == 1

\* the values drawn are kept on record on boards of up to MaxDrawCells cells
MaxDrawCells == 4

\* the earlier engine is run on boards of up to MaxLegacyCells cells
MaxLegacyCells == 4

\* the stm32 adapter, whose board is 22 x 16, is run on boards with both
\* sides at least 2 and up to MaxStmCells cells
MaxStmCells == 6

\* SimpleRNG is followed for MaxDraws calls of next() on each of MaxGames
\* generators after the first
MaxDraws == 32
MaxGames == 3

\* the x86 adapter, whose board is 20 x 20, is run on boards with both sides
\* at least 2 and up to MaxX86Cells cells
MaxX86Cells == 6

\* place_new_fruit is tried on boards of up to MaxFruitCells cells
MaxFruitCells == 9

\* the runs of set_direction calls are compared on boards of up to
\* MaxTickCells cells
MaxTickCells == 4

-----------------------------------------------------------------------------
(* Direction, Square, GameStatus, Location.                                *)

Direction == {"Up", "Down", "Left", "Right"}
Square == {"Fruit", "Empty", "Snake"}
GameStatus == {"InProgress", "Lost", "Won"}

Loc(x, y) == [x |-> x, y |-> y]

\* Location::default()
DefaultLocation == Loc(0, 0)

\* Rust's % on i32: the truncating remainder, with the sign of the dividend
Rem(a, n) == IF a >= 0 THEN a % n ELSE 0 - ((0 - a) % n)

\* a variant of move_in in which Up also steps to the right
move_in_up_and_right(l, direction) ==
    CASE direction = "Up"    -> Loc(l.x + 1, l.y - 1)
      [] direction = "Down"  -> Loc(l.x, l.y + 1)
      [] direction = "Left"  -> Loc(l.x - 1, l.y)
      [] direction = "Right" -> Loc(l.x + 1, l.y)

\* Location::move_in
move_in(l, direction) ==
    CASE direction = "Up"    -> Loc(l.x, l.y - 1)
      [] direction = "Down"  -> Loc(l.x, l.y + 1)
      [] direction = "Left"  -> Loc(l.x - 1, l.y)
      [] direction = "Right" -> Loc(l.x + 1, l.y)

\* one coordinate of Location::wrap: the two `if`s of the source, in order
wrap_coord(v, max) ==
    LET a == IF v >= max THEN Rem(v, max) ELSE v
    IN  IF a < 0 THEN max + Rem(a, max) ELSE a

\* Location::wrap
wrap(l, max_width, max_height) ==
    Loc(wrap_coord(l.x, max_width), wrap_coord(l.y, max_height))

\* the locations of a slice, as a set (for `contains`)
Locations(s) == {s[i] : i \in 1 .. Len(s)}

\* Game::snake: the live part of the backing array
live(sn, size) == SubSeq(sn, 1, size)

-----------------------------------------------------------------------------
(* The random source.  A u32 is carried as <<hi, lo>>, value hi*2^16 + lo, *)
(* so that the cast to i32 is computed and not assumed.                    *)

\* `as i32` on a u32: two's complement reinterpretation
as_i32(r) == IF r[1] >= 32768 THEN (r[1] - 65536) * 65536 + r[2]
                              ELSE r[1] * 65536 + r[2]

\* the values RandomNumberGenerator::next may return in the model
RandVals == {<<0, k>> : k \in 0 .. MaxRand}
            \cup {<<65535, 65536 - k>> : k \in 1 .. MaxNegRand}
            \cup {<<32768, 1>>}

-----------------------------------------------------------------------------
(* Fruit placement search.                                                 *)

None == [none |-> TRUE]

\* a variant of scanned without the wrap of the location looked at
scanned_unwrapped(expected, w, h, k) ==
    Loc(expected.x + (k % w), expected.y + (k \div w))

\* the location the scan of place_new_fruit looks at in its k-th step
\* (y outer, x inner)
scanned(expected, w, h, k) ==
    wrap(Loc(expected.x + (k % w), expected.y + (k \div w)), w, h)

Min(S) == CHOOSE m \in S : \A n \in S : m <= n

\* a variant of place_new_fruit that returns the start of the scan without
\* looking at the taken locations
place_new_fruit_unchecked(expected, w, h, taken) == scanned(expected, w, h, 0)

\* a variant of place_new_fruit whose scan stops after the first row (dy = 0)
place_new_fruit_first_row(expected, w, h, taken) ==
    LET free == {k \in 0 .. w - 1 : scanned(expected, w, h, k) \notin Locations(taken)}
    IN  IF free = {} THEN None ELSE scanned(expected, w, h, Min(free))

\* a variant of place_new_fruit that scans column by column (dx outer, dy
\* inner)
place_new_fruit_column_major(expected, w, h, taken) ==
    LET at(k) == wrap(Loc(expected.x + (k \div h), expected.y + (k % h)), w, h)
        free == {k \in 0 .. w * h - 1 : at(k) \notin Locations(taken)}
    IN  IF free = {} THEN None ELSE at(Min(free))

\* a variant of place_new_fruit whose scan leaves out the last location
place_new_fruit_misses_last(expected, w, h, taken) ==
    LET free == {k \in 0 .. w * h - 2 : scanned(expected, w, h, k) \notin Locations(taken)}
    IN  IF free = {} THEN None ELSE scanned(expected, w, h, Min(free))

\* the free function place_new_fruit
place_new_fruit(expected, w, h, taken) ==
    LET free == {k \in 0 .. w * h - 1 : scanned(expected, w, h, k) \notin Locations(taken)}
    IN  IF free = {} THEN None ELSE scanned(expected, w, h, Min(free))

\* Game::place_new_fruit, for the two values r1, r2 drawn from the random source
game_place_new_fruit(r1, r2, w, h, taken) ==
    place_new_fruit(wrap(Loc(as_i32(r1), as_i32(r2)), w, h), w, h, taken)

-----------------------------------------------------------------------------
(* The Game.                                                               *)

\* the fields of the game an operation can change, as one value
Snapshot == [snake |-> snake, snake_size |-> snake_size, fruit |-> fruit,
             status |-> status, current_direction |-> current_direction,
             next_direction |-> next_direction, rng |-> rng]

\* the backing array S::default(): width*height default locations
DefaultSnake(w, h) == [i \in 1 .. w * h |-> DefaultLocation]

\* a variant of InitialSnake with the head to the left of the tail
InitialSnakeReversed(w, h) ==
    [DefaultSnake(w, h) EXCEPT ![1] = Loc(w \div 2, h \div 2),
                               ![2] = Loc((w \div 2) - 1, h \div 2)]

\* the snake Game::new builds: head in the centre, tail to its left
\* (the array is 0-based in the source and 1-based here)
InitialSnake(w, h) ==
    [DefaultSnake(w, h) EXCEPT ![2] = Loc(w \div 2, h \div 2),
                               ![1] = Loc((w \div 2) - 1, h \div 2)]

\* the boards Game::new is tried on
Dims == {d \in (1 .. MaxSide) \X (1 .. MaxSide) : d[1] * d[2] <= MaxCells}

\* Game::new returns a game: the two writes to the snake are in bounds and
\* the unwrap of the first fruit does not panic
NewSucceeds(w, h, r1, r2) ==
    /\ w * h >= 2
    /\ game_place_new_fruit(r1, r2, w, h, live(InitialSnake(w, h), 2)) # None

\* a variant of New that takes one value from the random source
NewDrawsOnce(w, h, r1, r2) ==
    /\ width = w
    /\ height = h
    /\ snake = InitialSnake(w, h)
    /\ snake_size = 2
    /\ current_direction = "Right"
    /\ next_direction = "Right"
    /\ fruit = game_place_new_fruit(r1, r1, w, h, live(InitialSnake(w, h), 2))
    /\ status = "InProgress"
    /\ rng = 1
    /\ panicked = FALSE

\* Game::new
New(w, h, r1, r2) ==
    /\ width = w
    /\ height = h
    /\ snake = InitialSnake(w, h)
    /\ snake_size = 2
    /\ current_direction = "Right"
    /\ next_direction = "Right"
    /\ fruit = game_place_new_fruit(r1, r2, w, h, live(InitialSnake(w, h), 2))
    /\ status = "InProgress"
    /\ rng = 2
    /\ panicked = FALSE

\* no pure function has been called
NoCall == [fn |-> "none"]

Init ==
    /\ \E d \in Dims : \E r1, r2 \in RandVals :
          /\ NewSucceeds(d[1], d[2], r1, r2)
          /\ New(d[1], d[2], r1, r2)
    /\ op = "new"
    /\ ret = "none"
    /\ pre = Snapshot
    /\ call = NoCall

\* a variant of change_direction that guards only the Left/Right reversals
change_direction_guards_horizontal(next, current) ==
    IF <<next, current>> \in {<<"Left", "Right">>, <<"Right", "Left">>}
    THEN current
    ELSE next

\* a variant of change_direction without the reversal guard
change_direction_unguarded(next, current) == next

\* Game::change_direction: the direction committed for this tick
change_direction(next, current) ==
    IF <<next, current>> \in {<<"Left", "Right">>, <<"Right", "Left">>,
                              <<"Up", "Down">>, <<"Down", "Up">>}
    THEN current
    ELSE next

\* a variant of calcualte_new_head_location that does not wrap the new head
calcualte_new_head_location_unwrapped(sn, size, direction, w, h) ==
    move_in(sn[size], direction)

\* Game::calcualte_new_head_location
calcualte_new_head_location(sn, size, direction, w, h) ==
    wrap(move_in(sn[size], direction), w, h)

\* a variant of move_snake_in_current_direction without the loop that shifts
\* the segments: only the head is overwritten
move_snake_without_shift(sn, size, new_head) == [sn EXCEPT ![size] = new_head]

\* a variant of move_snake_in_current_direction whose loop stops one segment
\* early: the segment behind the head is not shifted
move_snake_short_shift(sn, size, new_head) ==
    [i \in 1 .. Len(sn) |->
        IF i < size - 1 THEN sn[i + 1] ELSE IF i = size THEN new_head ELSE sn[i]]

\* Game::move_snake_in_current_direction
move_snake_in_current_direction(sn, size, new_head) ==
    [i \in 1 .. Len(sn) |->
        IF i < size THEN sn[i + 1] ELSE IF i = size THEN new_head ELSE sn[i]]

\* Game::eat_the_fruit: the write to the backing array
\* (index snake_size of the source is index size + 1 here)
eat_the_fruit(sn, size, f) == [sn EXCEPT ![size + 1] = f]

\* a variant of set_direction in which a request that is still pending
\* (it differs from the committed direction) is not overwritten
set_direction_keeps_pending(s, d) ==
    IF s.next_direction # s.current_direction
    THEN s
    ELSE [s EXCEPT !.next_direction = d]

\* Snake::set_direction, on the fields of the game
set_direction(s, d) == [s EXCEPT !.next_direction = d]

\* a variant of SetDirection that commits the direction at once
SetDirectionCommits(d) ==
    /\ ~panicked
    /\ next_direction' = d
    /\ current_direction' = d
    /\ op' = "set_direction"
    /\ ret' = "none"
    /\ pre' = Snapshot
    /\ UNCHANGED <<width, height, snake, snake_size,
                   fruit, status, rng, panicked, call>>

\* Snake::set_direction
SetDirection(d) ==
    /\ ~panicked
    /\ next_direction' = set_direction(Snapshot, d).next_direction
    /\ op' = "set_direction"
    /\ ret' = "none"
    /\ pre' = Snapshot
    /\ UNCHANGED <<width, height, snake, snake_size, current_direction,
                   fruit, status, rng, panicked, call>>

\* a variant of bites_itself in which the arm that loses the game is missing
never_bites_itself(new_location, sn, size) == FALSE

\* a variant of bites_itself that leaves out the tail, which a move vacates
bites_itself_ignoring_tail(new_location, sn, size) ==
    new_location \in Locations(SubSeq(sn, 2, size))

\* the guard of the second arm of move_snake_and_get_status:
\* self.snake().contains(&new_location)
bites_itself(new_location, sn, size) ==
    new_location \in Locations(live(sn, size))

\* Game::move_snake_and_get_status, with the status it returns stored by
\* Snake::advance
MoveSnakeAndGetStatus ==
    /\ op' = "advance"
    /\ pre' = Snapshot
    /\ LET direction == change_direction(next_direction, current_direction)
           new_location == calcualte_new_head_location(snake, snake_size,
                                                       direction, width, height)
       IN  /\ current_direction' = direction
           /\ IF fruit = new_location
              THEN IF snake_size >= Len(snake)
                   THEN \* eat_the_fruit indexes past the backing array: panic
                        /\ panicked' = TRUE
                        /\ ret' = "panic"
                        /\ UNCHANGED <<snake, snake_size, fruit, status, rng>>
                   ELSE \E r1, r2 \in RandVals :
                          LET grown == eat_the_fruit(snake, snake_size, fruit)
                              placed == game_place_new_fruit(r1, r2, width, height,
                                            live(grown, snake_size + 1))
                          IN  /\ snake' = grown
                              /\ snake_size' = snake_size + 1
                              /\ rng' = rng + 2
                              /\ fruit' = IF placed = None THEN fruit ELSE placed
                              /\ status' = IF placed = None THEN "Won" ELSE "InProgress"
                              /\ ret' = status'
                              /\ UNCHANGED panicked
              ELSE IF bites_itself(new_location, snake, snake_size)
                   THEN /\ status' = "Lost"
                        /\ ret' = "Lost"
                        /\ UNCHANGED <<snake, snake_size, fruit, rng, panicked>>
                   ELSE /\ snake' = move_snake_in_current_direction(snake, snake_size,
                                                                    new_location)
                        /\ status' = "InProgress"
                        /\ ret' = "InProgress"
                        /\ UNCHANGED <<snake_size, fruit, rng, panicked>>
    /\ UNCHANGED <<width, height, next_direction, call>>

\* Snake::advance on the fields s of a game on a w x h board: the outcomes
\* it can have, one for every pair in draws, the pairs of values the random
\* source can yield when it is asked; an outcome is the fields after the call
\* and what the call returns ("panic" if eat_the_fruit indexes past the
\* backing array)
advance_from(s, w, h, draws) ==
    IF s.status # "InProgress"
    THEN {[after |-> s, ret |-> s.status]}
    ELSE
      LET direction == change_direction(s.next_direction, s.current_direction)
          new_location == calcualte_new_head_location(s.snake, s.snake_size,
                                                      direction, w, h)
          turned == [s EXCEPT !.current_direction = direction]
      IN  IF s.fruit = new_location
          THEN IF s.snake_size >= Len(s.snake)
               THEN {[after |-> turned, ret |-> "panic"]}
               ELSE LET grown == eat_the_fruit(s.snake, s.snake_size, s.fruit)
                        placed(r) == game_place_new_fruit(r[1], r[2], w, h,
                                         live(grown, s.snake_size + 1))
                        result(r) == IF placed(r) = None THEN "Won" ELSE "InProgress"
                    IN  {[after |-> [turned EXCEPT
                                       !.snake = grown,
                                       !.snake_size = s.snake_size + 1,
                                       !.rng = s.rng + 2,
                                       !.fruit = IF placed(r) = None THEN s.fruit
                                                 ELSE placed(r),
                                       !.status = result(r)],
                          ret |-> result(r)] : r \in draws}
          ELSE IF bites_itself(new_location, s.snake, s.snake_size)
               THEN {[after |-> [turned EXCEPT !.status = "Lost"], ret |-> "Lost"]}
               ELSE {[after |-> [turned EXCEPT
                                   !.snake = move_snake_in_current_direction(
                                                 s.snake, s.snake_size, new_location),
                                   !.status = "InProgress"],
                      ret |-> "InProgress"]}

\* Snake::advance with a random source that can yield any values of RandVals
advance_outcomes(s, w, h) == advance_from(s, w, h, RandVals \X RandVals)

\* a variant of AdvanceTerminal without the test of the status: a finished
\* game is moved again
AdvanceTerminalMoves ==
    /\ ~panicked
    /\ status # "InProgress"
    /\ MoveSnakeAndGetStatus

\* Snake::advance on a game that is Lost or Won: the status is returned and
\* nothing else happens
AdvanceTerminal ==
    /\ ~panicked
    /\ status # "InProgress"
    /\ op' = "advance"
    /\ ret' = status
    /\ pre' = Snapshot
    /\ UNCHANGED <<width, height, snake, snake_size, current_direction,
                   next_direction, fruit, status, rng, panicked, call>>

\* Snake::advance on a game in progress
AdvanceInProgress ==
    /\ ~panicked
    /\ status = "InProgress"
    /\ MoveSnakeAndGetStatus

\* Snake::advance
Advance == AdvanceTerminal \/ AdvanceInProgress

\* the index FixedSizeBoard::at_mut computes for a location, before the
\* reduction modulo the width of usize
at_index(l, w) == l.y * w + l.x

\* what Snake::board writes for the fields s of a game (BoardWrites, for
\* fields held in a record)
board_writes(s) ==
    CASE s.status = "InProgress" ->
            <<[at |-> s.fruit, square |-> "Fruit"]>>
            \o [i \in 1 .. s.snake_size |-> [at |-> s.snake[i], square |-> "Snake"]]
      [] s.status = "Won" ->
            [i \in 1 .. Len(s.snake) |-> [at |-> s.snake[i], square |-> "Snake"]]
      [] s.status = "Lost" -> <<>>

\* a variant of BoardWrites whose Lost arm draws the fruit and the snake as
\* the InProgress arm does
BoardWritesShowsLost ==
    CASE status \in {"InProgress", "Lost"} ->
            <<[at |-> fruit, square |-> "Fruit"]>>
            \o [i \in 1 .. snake_size |-> [at |-> snake[i], square |-> "Snake"]]
      [] status = "Won" ->
            [i \in 1 .. Len(snake) |-> [at |-> snake[i], square |-> "Snake"]]

\* what Snake::board writes, in order: InProgress, the fruit and then the
\* live segments; Won, the whole backing array; Lost, nothing
BoardWrites ==
    CASE status = "InProgress" ->
            <<[at |-> fruit, square |-> "Fruit"]>>
            \o [i \in 1 .. snake_size |-> [at |-> snake[i], square |-> "Snake"]]
      [] status = "Won" ->
            [i \in 1 .. Len(snake) |-> [at |-> snake[i], square |-> "Snake"]]
      [] status = "Lost" -> <<>>

\* the grid after the writes: a fresh all-Empty FixedSizeBoard in which each
\* cell holds what the last write to it stored
Rendered(writes, w, h) ==
    [i \in 0 .. w * h - 1 |->
        LET hits == {k \in 1 .. Len(writes) : at_index(writes[k].at, w) = i}
        IN  IF hits = {} THEN "Empty"
            ELSE writes[CHOOSE k \in hits : \A j \in hits : j <= k].square]

\* some write indexes outside the grid's storage: at_mut panics in every build
WriteOutOfBounds(writes, w, h) ==
    \E k \in 1 .. Len(writes) : at_index(writes[k].at, w) \notin 0 .. w * h - 1

\* some write has a negative coordinate: its cast to usize is huge, and
\* at_mut panics in a build with overflow checks (or out of bounds); a build
\* without them wraps around to at_index
WriteOverflows(writes) ==
    \E k \in 1 .. Len(writes) : writes[k].at.x < 0 \/ writes[k].at.y < 0

\* a variant of BoardReturns that commits the pending direction
BoardReturnsAndCommits ==
    /\ ~panicked
    /\ ~WriteOutOfBounds(BoardWrites, width, height)
    /\ op' = "board"
    /\ ret' = Rendered(BoardWrites, width, height)
    /\ pre' = Snapshot
    /\ current_direction' = next_direction
    /\ UNCHANGED <<width, height, snake, snake_size,
                   next_direction, fruit, status, rng, panicked, call>>

\* Snake::board returns the rebuilt grid (the field Game.board holds the same
\* grid, and nothing reads it before the next board() replaces it)
BoardReturns ==
    /\ ~panicked
    /\ ~WriteOutOfBounds(BoardWrites, width, height)
    /\ op' = "board"
    /\ ret' = Rendered(BoardWrites, width, height)
    /\ pre' = Snapshot
    /\ UNCHANGED <<width, height, snake, snake_size, current_direction,
                   next_direction, fruit, status, rng, panicked, call>>

\* Snake::board panics inside at_mut
BoardPanics ==
    /\ ~panicked
    /\ WriteOutOfBounds(BoardWrites, width, height) \/ WriteOverflows(BoardWrites)
    /\ op' = "board"
    /\ ret' = "panic"
    /\ pre' = Snapshot
    /\ panicked' = TRUE
    /\ UNCHANGED <<width, height, snake, snake_size, current_direction,
                   next_direction, fruit, status, rng, call>>

\* Snake::board
Board == BoardReturns \/ BoardPanics

Next ==
    \/ \E d \in Direction : SetDirection(d)
    \/ Advance
    \/ Board

Spec == Init /\ [][Next]_vars

-----------------------------------------------------------------------------
(* Location::wrap called on its own, on any location and any bounds.       *)

\* no game has been constructed
NoGame ==
    /\ width = 0
    /\ height = 0
    /\ snake = <<>>
    /\ snake_size = 0
    /\ current_direction = "Right"
    /\ next_direction = "Right"
    /\ fruit = DefaultLocation
    /\ status = "InProgress"
    /\ rng = 0
    /\ panicked = FALSE
    /\ op = "none"
    /\ ret = "none"
    /\ pre = [status |-> "none"]

Coords == (0 - MaxCoord) .. MaxCoord
WrapBounds == 1 .. MaxBound

\* l.wrap(max_width, max_height) is called and returns
CallWrap(l, max_width, max_height) ==
    /\ call' = [fn |-> "wrap", self |-> l, max_width |-> max_width,
                max_height |-> max_height, out |-> wrap(l, max_width, max_height)]
    /\ UNCHANGED gameVars

InitWrap == NoGame /\ call = NoCall

NextWrap ==
    \E x, y \in Coords : \E max_width, max_height \in WrapBounds :
        CallWrap(Loc(x, y), max_width, max_height)

SpecWrap == InitWrap /\ [][NextWrap]_vars

-----------------------------------------------------------------------------
(* Properties.                                                             *)

Opposite(d) ==
    CASE d = "Up" -> "Down" [] d = "Down" -> "Up"
      [] d = "Left" -> "Right" [] d = "Right" -> "Left"

Terminal == {"Lost", "Won"}

\* the last operation was an advance() on a game in progress that returned
AdvancedInProgress ==
    op = "advance" /\ pre.status = "InProgress" /\ ~panicked

\* the new head location that advance() computed: the head before the call,
\* moved in the direction the call committed, wrapped by Location::wrap
PreNewHead ==
    calcualte_new_head_location(pre.snake, pre.snake_size,
        change_direction(pre.next_direction, pre.current_direction),
        width, height)

PreLive == Locations(live(pre.snake, pre.snake_size))

\* C1: once the status is Lost or Won (advance() has returned it), every
\* later step keeps the status, the snake body, the logical length, the
\* fruit, the committed direction and the position of the random source,
\* and every later advance() returns that status, whatever set_direction and
\* board() calls come in between.
C1_TerminalIsAbsorbing ==
    [][(status \in Terminal) =>
          (/\ status' = status
           /\ snake' = snake
           /\ snake_size' = snake_size
           /\ fruit' = fruit
           /\ current_direction' = current_direction
           /\ rng' = rng
           /\ (op' = "advance" => ret' = status))]_vars

\* an advance() on a Lost game has returned, with a direction pending that
\* differs from the committed one
C1_Witness ==
    /\ op = "advance"
    /\ pre.status = "Lost"
    /\ ret = "Lost"
    /\ next_direction \notin {current_direction, Opposite(current_direction)}

\* C2: the committed direction starts as Right and no step (so no advance,
\* whatever set_direction calls preceded it) replaces it by its opposite.
C2_NeverReverses ==
    /\ current_direction = "Right"
    /\ [][current_direction' # Opposite(current_direction)]_vars

\* an advance() in progress has run with the opposite of the committed
\* direction pending, and the committed direction is what it was
C2_Witness ==
    /\ AdvancedInProgress
    /\ pre.next_direction = Opposite(pre.current_direction)
    /\ current_direction = pre.current_direction
    /\ snake # pre.snake

\* C3: when advance() on a game in progress computes a new head that is not
\* the fruit and is a live segment, it returns Lost and the snake body, the
\* logical length and the fruit are as before the call.
C3_SelfCollisionLoses ==
    (/\ op = "advance"
     /\ pre.status = "InProgress"
     /\ PreNewHead # pre.fruit
     /\ PreNewHead \in PreLive)
    => /\ ret = "Lost"
       /\ status = "Lost"
       /\ snake = pre.snake
       /\ snake_size = pre.snake_size
       /\ fruit = pre.fruit

\* the new head was the tail segment (index 0 of the source), in a snake of
\* at least three segments, and the game is Lost
C3_Witness ==
    /\ AdvancedInProgress
    /\ PreNewHead # pre.fruit
    /\ PreNewHead = pre.snake[1]
    /\ pre.snake_size >= 3
    /\ ret = "Lost"

\* C4: when advance() on a game in progress computes a new head equal to the
\* fruit, the logical length grows by one, the new last segment is the old
\* fruit, the earlier segments keep index and location, and the result is
\* InProgress with a fruit off the grown snake, or Won.
C4_EatingGrowsByOne ==
    (/\ op = "advance"
     /\ pre.status = "InProgress"
     /\ PreNewHead = pre.fruit)
    => /\ snake_size = pre.snake_size + 1
       /\ snake[snake_size] = pre.fruit
       /\ \A i \in 1 .. pre.snake_size : snake[i] = pre.snake[i]
       /\ \/ /\ ret = "InProgress"
             /\ status = "InProgress"
             /\ fruit \notin Locations(live(snake, snake_size))
          \/ /\ ret = "Won"
             /\ status = "Won"

\* a coordinate taken into [0, n) on the torus
Torus(v, n) == v % n

\* the head l moved one unit in direction d, both coordinates then taken
\* into the width x height board
Neighbour(l, d) ==
    CASE d = "Up"    -> Loc(Torus(l.x, width), Torus(l.y - 1, height))
      [] d = "Down"  -> Loc(Torus(l.x, width), Torus(l.y + 1, height))
      [] d = "Left"  -> Loc(Torus(l.x - 1, width), Torus(l.y, height))
      [] d = "Right" -> Loc(Torus(l.x + 1, width), Torus(l.y, height))

\* C5: when the cell next to the head in the committed direction, wrapped
\* into the board, is neither the fruit nor a live segment, advance() on a
\* game in progress returns InProgress, every segment but the last takes the
\* place of its successor, the last segment is that cell, and the logical
\* length and the fruit are unchanged.
C5_NormalMoveShifts ==
    (/\ op = "advance"
     /\ pre.status = "InProgress"
     /\ Neighbour(pre.snake[pre.snake_size], current_direction) # pre.fruit
     /\ Neighbour(pre.snake[pre.snake_size], current_direction) \notin PreLive)
    => /\ ret = "InProgress"
       /\ status = "InProgress"
       /\ snake_size = pre.snake_size
       /\ fruit = pre.fruit
       /\ \A i \in 1 .. snake_size - 1 : snake[i] = pre.snake[i + 1]
       /\ snake[snake_size] = Neighbour(pre.snake[pre.snake_size], current_direction)
       /\ \A i \in snake_size + 1 .. Len(snake) : snake[i] = pre.snake[i]

\* a snake of at least three segments has moved across the left edge of a
\* board at least two cells wide
C5_Witness ==
    /\ AdvancedInProgress
    /\ ret = "InProgress"
    /\ snake_size = pre.snake_size
    /\ snake_size >= 3
    /\ width >= 2
    /\ current_direction = "Left"
    /\ pre.snake[pre.snake_size].x = 0
    /\ snake[snake_size].x = width - 1

\* C6: while the game is in progress the fruit is on no live segment.
C6_FruitOffSnake ==
    status = "InProgress" => fruit \notin Locations(live(snake, snake_size))

\* a fruit has just been eaten and a new one placed, with one cell left free
C6_Witness ==
    /\ AdvancedInProgress
    /\ snake_size = pre.snake_size + 1
    /\ status = "InProgress"
    /\ fruit # pre.fruit
    /\ snake_size + 1 = width * height

\* C7: the live segments are pairwise distinct, in every state.
C7_SegmentsDistinct ==
    \A i, j \in 1 .. snake_size : i # j => snake[i] # snake[j]

\* a snake of at least four segments has made a move without growing
C7_Witness ==
    /\ AdvancedInProgress
    /\ snake_size >= 4
    /\ snake_size = pre.snake_size
    /\ snake # pre.snake

\* C8: every live segment lies within [0, width) x [0, height), in every
\* state.
C8_SegmentsInsideBoard ==
    \A i \in 1 .. snake_size :
        snake[i].x \in 0 .. width - 1 /\ snake[i].y \in 0 .. height - 1

\* C9: each coordinate wrap returns lies in [0, n) for its bound n.
C9_WrapInRange ==
    call.fn = "wrap" =>
        /\ call.out.x \in 0 .. call.max_width - 1
        /\ call.out.y \in 0 .. call.max_height - 1

\* C10: wrap returns the same location for a location shifted by the width
\* in x, or by the height in y, as for the location itself.
C10_WrapPeriodic ==
    [][(/\ call.fn = "wrap"
        /\ call'.max_width = call.max_width
        /\ call'.max_height = call.max_height
        /\ \/ call'.self = Loc(call.self.x + call.max_width, call.self.y)
           \/ call'.self = Loc(call.self.x, call.self.y + call.max_height))
       => (call'.out = call.out)]_vars

\* the cells of the board
AllCells == {Loc(x, y) : x \in 0 .. width - 1, y \in 0 .. height - 1}

\* the grid in which every cell is the square sq
Filled(sq) == [i \in 0 .. width * height - 1 |-> sq]

\* the last operation was a board() that returned a grid
BoardReturned == op = "board" /\ ~panicked

\* C11: the status is Won only with a snake of logical length width*height
\* that covers every cell; advance() on a game in progress returns Won only
\* when the new head was the fruit and the snake grew by it; board() on a
\* Won game returns the grid with Snake in every cell (so no Fruit).
C11_WonFillsBoard ==
    /\ status = "Won" =>
          /\ snake_size = width * height
          /\ Locations(live(snake, snake_size)) = AllCells
    /\ (op = "advance" /\ pre.status = "InProgress" /\ ~panicked /\ ret = "Won") =>
          /\ status = "Won"
          /\ PreNewHead = pre.fruit
          /\ snake_size = pre.snake_size + 1
          /\ snake[snake_size] = pre.fruit
    /\ (op = "board" /\ pre.status = "Won") =>
          /\ ~panicked
          /\ ret = Filled("Snake")

\* board() has returned on a game won on a board of two rows or more and
\* two columns or more
C11_Witness ==
    /\ BoardReturned
    /\ status = "Won"
    /\ width >= 2
    /\ height >= 2
    /\ ret = Filled("Snake")

\* C12: board() on a Lost game returns the all-Empty grid, and the snake
\* body (still at least two live segments), the logical length and the fruit
\* are stored as before the call.
C12_LostBoardIsEmpty ==
    (op = "board" /\ pre.status = "Lost") =>
        /\ ~panicked
        /\ ret = Filled("Empty")
        /\ status = "Lost"
        /\ snake = pre.snake
        /\ snake_size = pre.snake_size
        /\ snake_size >= 2
        /\ fruit = pre.fruit

\* board() has returned on a Lost game whose snake and fruit are inside the
\* board
C12_Witness ==
    /\ BoardReturned
    /\ status = "Lost"
    /\ ret = Filled("Empty")
    /\ fruit \in AllCells
    /\ Locations(live(snake, snake_size)) \subseteq AllCells
    /\ snake_size >= 3

\* C13: board() on a game in progress returns a grid with Fruit exactly at
\* the fruit, Snake exactly at the live segments (as many Snake cells as the
\* logical length) and Empty elsewhere.
C13_InProgressBoard ==
    (op = "board" /\ pre.status = "InProgress") =>
        /\ ~panicked
        /\ \A l \in AllCells :
              ret[l.y * width + l.x] =
                 IF l = fruit THEN "Fruit"
                 ELSE IF l \in Locations(live(snake, snake_size)) THEN "Snake"
                 ELSE "Empty"
        /\ Cardinality({i \in DOMAIN ret : ret[i] = "Snake"}) = snake_size
        /\ Cardinality({i \in DOMAIN ret : ret[i] = "Fruit"}) = 1

\* what board() would do in the current state: the grid it returns, or
\* which of its panics can happen
BoardOutcome ==
    LET writes == BoardWrites
    IN  IF WriteOutOfBounds(writes, width, height)
        THEN [grid |-> "panic", overflows |-> TRUE]
        ELSE [grid |-> Rendered(writes, width, height),
              overflows |-> WriteOverflows(writes)]

\* C14: a call of set_direction leaves the snake body, the logical length,
\* the fruit, the status, the committed direction, the position of the random
\* source and what board() returns as they were; only the pending direction
\* (and the record of the last call) changes.
C14_SetDirectionFrame ==
    [][(op' = "set_direction") =>
         (/\ snake' = snake
          /\ snake_size' = snake_size
          /\ fruit' = fruit
          /\ status' = status
          /\ current_direction' = current_direction
          /\ rng' = rng
          /\ width' = width
          /\ height' = height
          /\ BoardOutcome' = BoardOutcome)]_vars

\* set_direction has changed the pending direction of a game in progress to
\* a direction other than the committed one
C14_Witness ==
    /\ op = "set_direction"
    /\ status = "InProgress"
    /\ next_direction # pre.next_direction
    /\ next_direction # current_direction
    /\ snake = pre.snake
    /\ fruit = pre.fruit

\* the game on the boards of up to MaxTickCells cells
InitTick == Init /\ width * height <= MaxTickCells

SpecTick == InitTick /\ [][Next]_vars

\* the last operation was the construction or an advance: no set_direction
\* of the coming tick has been called yet
AtTickStart == op \in {"new", "advance"} /\ ~panicked

\* C15: from every state, set_direction(d1), set_direction(d2) gives the same
\* fields as set_direction(d2) alone (and so does any longer run of requests,
\* one request at a time; runs of three are compared directly); from every
\* state in which a tick starts, the advance() that follows has the same
\* outcomes (fields after it and returned status, for every draw of the
\* random source), also when d2 reverses the committed direction; every
\* set_direction and every advance() of the game is what these operators say
\* of the fields before it.
C15_LastRequestWins ==
    /\ (op = "advance") =>
          [after |-> Snapshot, ret |-> ret] \in advance_outcomes(pre, width, height)
    /\ (op = "set_direction") =>
          Snapshot = set_direction(pre, next_direction)
    /\ ~panicked =>
          \A d1, d2, d3 \in Direction :
              /\ set_direction(set_direction(Snapshot, d1), d2)
                    = set_direction(Snapshot, d2)
              /\ set_direction(set_direction(set_direction(Snapshot, d1), d2), d3)
                    = set_direction(Snapshot, d3)
    /\ AtTickStart =>
          \A d1, d2 \in Direction :
              advance_outcomes(set_direction(set_direction(Snapshot, d1), d2),
                               width, height)
                  = advance_outcomes(set_direction(Snapshot, d2), width, height)

\* a set_direction has overwritten a request that was still pending, with a
\* reversal that the next advance() will reject
C15_Witness ==
    /\ op = "set_direction"
    /\ status = "InProgress"
    /\ pre.next_direction # pre.current_direction
    /\ pre.next_direction # Opposite(pre.current_direction)
    /\ next_direction = Opposite(current_direction)

\* an outcome of advance() without the direction fields
Visible(o) ==
    [snake |-> o.after.snake, snake_size |-> o.after.snake_size,
     fruit |-> o.after.fruit, status |-> o.after.status, ret |-> o.ret]

\* C16: from a state right after construction or an advance, with the game in
\* progress, set_direction(opposite of the committed direction); advance()
\* gives the same snake body, logical length, fruit, status and returned value
\* as advance() alone, and the committed direction stays as it was.
C16_ReversalIsIgnored ==
    (AtTickStart /\ status = "InProgress") =>
        LET reversed == advance_outcomes(
                            set_direction(Snapshot, Opposite(current_direction)),
                            width, height)
            alone == advance_outcomes(Snapshot, width, height)
        IN  /\ {Visible(o) : o \in reversed} = {Visible(o) : o \in alone}
            /\ \A o \in reversed \cup alone :
                  o.after.current_direction = current_direction

\* an advance() has rejected a requested reversal of a vertical movement and
\* moved the snake on in the committed direction
C16_Witness ==
    /\ AdvancedInProgress
    /\ pre.current_direction \in {"Up", "Down"}
    /\ pre.next_direction = Opposite(pre.current_direction)
    /\ current_direction = pre.current_direction
    /\ ret = "InProgress"
    /\ snake # pre.snake

\* C19: a call of board() leaves the snake body, the logical length, the
\* fruit, the status, both directions and the position of the random source
\* as they were; the grid it returns is the one the fields determine, and
\* what the fields determine is the same after the call, so a second board()
\* returns an equal grid.
C19_BoardIsPureRead ==
    [][(op' = "board") =>
         (/\ snake' = snake
          /\ snake_size' = snake_size
          /\ fruit' = fruit
          /\ status' = status
          /\ current_direction' = current_direction
          /\ next_direction' = next_direction
          /\ rng' = rng
          /\ width' = width
          /\ height' = height
          /\ BoardOutcome' = BoardOutcome
          /\ (~panicked') => (ret' = BoardOutcome.grid)
          /\ (op = "board" /\ ~panicked') => (ret' = ret))]_vars

\* board() has returned the grid of a game in progress in which a request
\* to turn is pending
C19_Witness ==
    /\ BoardReturned
    /\ status = "InProgress"
    /\ pre = Snapshot
    /\ next_direction # current_direction
    /\ \E i \in DOMAIN ret : ret[i] = "Fruit"
    /\ \E i \in DOMAIN ret : ret[i] = "Snake"

\* C25: the number of values drawn from the random source is twice the
\* logical length minus two: two at construction, two at every growth (the
\* one that ends in Won too), none in a move that does not grow the snake,
\* in a losing move, in an advance of a finished game, in set_direction or
\* in board().
C25_TwoDrawsPerFruit ==
    /\ rng = 2 * (snake_size - 1)
    /\ (op = "new") => (rng = 2)
    /\ (op \in {"set_direction", "board"}) => (rng = pre.rng)
    /\ (op = "advance") =>
          rng = IF snake_size = pre.snake_size + 1 THEN pre.rng + 2 ELSE pre.rng
    /\ (op = "advance" /\ (pre.status \in Terminal \/ ret \in {"Lost", "panic"})) =>
          (rng = pre.rng /\ snake_size = pre.snake_size)

\* the growth that ended the game in Won has drawn two values
C25_Witness ==
    /\ op = "advance"
    /\ pre.status = "InProgress"
    /\ status = "Won"
    /\ rng = pre.rng + 2
    /\ rng = 2 * (width * height - 1)
    /\ width >= 2
    /\ height >= 2

\* C30: the logical length is between 2 and width*height, and a growth step
\* never writes past the backing array: no advance() panics in
\* eat_the_fruit.
C30_GrowthStaysInBounds ==
    /\ 2 <= snake_size
    /\ snake_size <= width * height
    /\ ~(op = "advance" /\ panicked)

-----------------------------------------------------------------------------
(* The free function place_new_fruit on its own.                           *)

\* the cells of a w x h board
Cells(w, h) == {Loc(x, y) : x \in 0 .. w - 1, y \in 0 .. h - 1}

\* a slice that holds the locations of S, in some order
RECURSIVE SliceOf(_)
SliceOf(S) ==
    IF S = {} THEN <<>>
    ELSE LET l == CHOOSE l \in S : TRUE IN <<l>> \o SliceOf(S \ {l})

\* the boards place_new_fruit is tried on
FruitDims ==
    {d \in (1 .. MaxSide) \X (1 .. MaxSide) : d[1] * d[2] <= MaxFruitCells}

\* the starts place_new_fruit is tried on: inside the board and beyond it
FruitStarts == {Loc(x, y) : x \in 0 .. MaxCoord, y \in 0 .. MaxCoord}

\* the arguments of a call of place_new_fruit: taken holds any set of board
\* cells, and possibly a location off the board as well
InitFruit ==
    /\ NoGame
    /\ \E d \in FruitDims : \E expected \in FruitStarts :
       \E cells \in SUBSET Cells(d[1], d[2]) : \E off \in SUBSET {Loc(-1, 0)} :
          call = [fn |-> "place_new_fruit", expected |-> expected,
                  width |-> d[1], height |-> d[2],
                  taken |-> SliceOf(cells \cup off),
                  done |-> FALSE, out |-> None]

\* place_new_fruit(expected, width, height, taken) returns
CallPlaceNewFruit ==
    /\ call.fn = "place_new_fruit"
    /\ ~call.done
    /\ call' = [call EXCEPT !.done = TRUE,
                            !.out = place_new_fruit(call.expected, call.width,
                                                    call.height, call.taken)]
    /\ UNCHANGED gameVars

NextFruit == CallPlaceNewFruit

SpecFruit == InitFruit /\ [][NextFruit]_vars

\* the k-th location of the scan, with both coordinates reduced modulo the
\* board's sides: dx = k mod width (inner), dy = k div width (outer)
TorusScan(k) ==
    Loc((call.expected.x + (k % call.width)) % call.width,
        (call.expected.y + (k \div call.width)) % call.height)

\* C17: for a start with non-negative coordinates, a location returned by
\* place_new_fruit lies inside the board, is not in taken, and is the first
\* location of the scan (dy outer, dx inner, wrapped) that is not in taken:
\* every location scanned before it is in taken.
C17_FirstFreeInScanOrder ==
    (call.done /\ call.out # None) =>
        /\ call.out \in Cells(call.width, call.height)
        /\ call.out \notin Locations(call.taken)
        /\ \E k \in 0 .. call.width * call.height - 1 :
              /\ call.out = TorusScan(k)
              /\ \A j \in 0 .. k - 1 : TorusScan(j) \in Locations(call.taken)

\* place_new_fruit has returned a location of a later row than the start's,
\* for a start beyond the board whose own cell was taken
C17_Witness ==
    /\ call.done
    /\ call.out # None
    /\ call.expected.x >= call.width
    /\ call.width >= 2
    /\ TorusScan(0) \in Locations(call.taken)
    /\ call.out.y # TorusScan(0).y
    /\ call.out.x # TorusScan(0).x

\* C18: for a start with non-negative coordinates, place_new_fruit returns
\* no location exactly when every cell of the board is in taken; its
\* width*height scan steps visit every cell of the board, each once.
C18_NoneIffBoardFull ==
    call.done =>
        /\ (call.out = None)
              <=> (Cells(call.width, call.height) \subseteq Locations(call.taken))
        /\ {scanned(call.expected, call.width, call.height, k) :
                k \in 0 .. call.width * call.height - 1}
              = Cells(call.width, call.height)
        /\ \A j, k \in 0 .. call.width * call.height - 1 :
              (scanned(call.expected, call.width, call.height, j)
                  = scanned(call.expected, call.width, call.height, k)) => j = k

\* place_new_fruit has returned no location on a full board of two rows and
\* two columns or more, for a start beyond the board
C18_Witness ==
    /\ call.done
    /\ call.out = None
    /\ call.width >= 2
    /\ call.height >= 2
    /\ call.expected.x >= call.width
    /\ call.expected.y >= call.height
    /\ Cells(call.width, call.height) \subseteq Locations(call.taken)

-----------------------------------------------------------------------------
(* Game::new on its own.                                                   *)

\* a variant of CapacitiesMatch without the assertion on the board's array
CapacitiesMatchSnakeOnly(w, h, snake_capacity, board_capacity) ==
    snake_capacity = w * h

\* the two assertions of Game::new on the capacities of the backing arrays
CapacitiesMatch(w, h, snake_capacity, board_capacity) ==
    /\ snake_capacity = w * h
    /\ board_capacity = w * h

\* the capacities Game::new is tried with: width*height and its neighbours
Capacities(w, h) == {c \in {w * h - 1, w * h, w * h + 1} : c >= 0}

\* the arguments of a call of Game::new: the size of the board, the
\* capacities of the types S and B, and the first two values of the random
\* source
InitNew ==
    /\ NoGame
    /\ \E d \in Dims : \E r1, r2 \in RandVals :
       \E snake_capacity, board_capacity \in Capacities(d[1], d[2]) :
          call = [fn |-> "new", width |-> d[1], height |-> d[2],
                  snake_capacity |-> snake_capacity,
                  board_capacity |-> board_capacity,
                  r1 |-> r1, r2 |-> r2, done |-> FALSE]

\* Game::new returns the game
NewReturns ==
    /\ call.fn = "new"
    /\ ~call.done
    /\ CapacitiesMatch(call.width, call.height,
                       call.snake_capacity, call.board_capacity)
    /\ NewSucceeds(call.width, call.height, call.r1, call.r2)
    /\ width' = call.width
    /\ height' = call.height
    /\ snake' = InitialSnake(call.width, call.height)
    /\ snake_size' = 2
    /\ current_direction' = "Right"
    /\ next_direction' = "Right"
    /\ fruit' = game_place_new_fruit(call.r1, call.r2, call.width, call.height,
                    live(InitialSnake(call.width, call.height), 2))
    /\ status' = "InProgress"
    /\ rng' = 2
    /\ op' = "new"
    /\ ret' = "none"
    /\ call' = [call EXCEPT !.done = TRUE]
    /\ UNCHANGED <<panicked, pre>>

\* Game::new panics: an assertion fails, a write to the snake is out of
\* bounds, or no cell is free for the first fruit
NewPanics ==
    /\ call.fn = "new"
    /\ ~call.done
    /\ ~(/\ CapacitiesMatch(call.width, call.height,
                            call.snake_capacity, call.board_capacity)
         /\ NewSucceeds(call.width, call.height, call.r1, call.r2))
    /\ panicked' = TRUE
    /\ op' = "new"
    /\ ret' = "panic"
    /\ call' = [call EXCEPT !.done = TRUE]
    /\ UNCHANGED <<width, height, snake, snake_size, current_direction,
                   next_direction, fruit, status, rng, pre>>

NextNew == NewReturns \/ NewPanics

SpecNew == InitNew /\ [][NextNew]_vars

\* the head and the tail that the claim names, for the board of the call
CentreHead == Loc(call.width \div 2, call.height \div 2)
CentreTail == Loc((call.width \div 2) - 1, call.height \div 2)

\* the k-th location of the row-major scan that starts at the two draws,
\* read as signed numbers and reduced modulo the board's sides
StartScan(k) ==
    Loc(((as_i32(call.r1) % call.width) + (k % call.width)) % call.width,
        ((as_i32(call.r2) % call.height) + (k \div call.width)) % call.height)

\* C20: on a board of three cells or more, with matching capacities and any
\* draws, new() returns a game in progress of logical length 2 with the tail
\* at (width/2 - 1, height/2), the head at (width/2, height/2), both
\* directions Right, and the fruit at the first location of the scan from
\* the wrapped draws that is neither the head nor the tail.
C20_NewGame ==
    (/\ call.done
     /\ call.width * call.height >= 3
     /\ CapacitiesMatch(call.width, call.height,
                        call.snake_capacity, call.board_capacity)) =>
        /\ ~panicked
        /\ op = "new"
        /\ ret = "none"
        /\ width = call.width
        /\ height = call.height
        /\ status = "InProgress"
        /\ snake_size = 2
        /\ Len(snake) = call.width * call.height
        /\ snake[1] = CentreTail
        /\ snake[2] = CentreHead
        /\ current_direction = "Right"
        /\ next_direction = "Right"
        /\ \E k \in 0 .. call.width * call.height - 1 :
              /\ fruit = StartScan(k)
              /\ fruit \notin {CentreHead, CentreTail}
              /\ \A j \in 0 .. k - 1 : StartScan(j) \in {CentreHead, CentreTail}

\* new() has returned a game for a negative first draw whose wrapped start
\* is the head's cell, so that the fruit is further on in the scan
C20_Witness ==
    /\ call.done
    /\ ~panicked
    /\ call.width * call.height >= 3
    /\ as_i32(call.r1) < 0
    /\ StartScan(0) = CentreHead
    /\ fruit # CentreHead
    /\ snake[2] = CentreHead

\* no game exists: the fields are as before the call of Game::new
NoGameReturned ==
    /\ panicked
    /\ ret = "panic"
    /\ width = 0
    /\ height = 0
    /\ snake = <<>>
    /\ snake_size = 0

\* C21: when the capacity of the snake's array or of the board's array
\* differs from width*height, new() panics and no game is returned.
C21_CapacityMismatchAborts ==
    (/\ call.done
     /\ ~(/\ call.snake_capacity = call.width * call.height
          /\ call.board_capacity = call.width * call.height)) =>
        NoGameReturned

\* new() has panicked on a board of three cells or more whose snake array
\* fits and whose board array is one cell too large
C21_Witness ==
    /\ call.done
    /\ NoGameReturned
    /\ call.width * call.height >= 3
    /\ call.snake_capacity = call.width * call.height
    /\ call.board_capacity = call.width * call.height + 1

\* C22: on a board of fewer than three cells, with matching capacities,
\* new() panics for every pair of draws and returns no game.
C22_TinyBoardsFail ==
    (/\ call.done
     /\ call.width * call.height < 3
     /\ call.snake_capacity = call.width * call.height
     /\ call.board_capacity = call.width * call.height) =>
        NoGameReturned

-----------------------------------------------------------------------------
(* Iteration over a board.                                                 *)

\* the contents FixedSizeBoard.data can have on a w x h board
Grids(w, h) == [0 .. w * h - 1 -> Square]

\* FixedSizeBoard::at
at(data, location, w) == data[at_index(location, w)]

\* Board::iter on a board of a game: a fresh iterator at (0,0)
InitIter ==
    /\ NoGame
    /\ \E d \in Dims : \E data \in Grids(d[1], d[2]) :
          call = [fn |-> "iter", width |-> d[1], height |-> d[2], data |-> data,
                  location |-> Loc(0, 0), yielded |-> <<>>, ended |-> FALSE,
                  again |-> FALSE]

\* Board::iter is called again on the same board
IterAgain ==
    /\ call.fn = "iter"
    /\ call' = [call EXCEPT !.location = Loc(0, 0), !.yielded = <<>>,
                            !.ended = FALSE, !.again = TRUE]
    /\ UNCHANGED gameVars

\* BoardIterator::next returns None
IterNextNone ==
    /\ call.fn = "iter"
    /\ call.location.y = call.height
    /\ call' = [call EXCEPT !.ended = TRUE]
    /\ UNCHANGED gameVars

\* a variant of IterNextSome that walks down the columns
IterNextSomeColumnMajor ==
    /\ call.fn = "iter"
    /\ call.location.y # call.height
    /\ LET result == [location |-> call.location,
                      square |-> at(call.data, call.location, call.width)]
           down == call.location.y + 1
       IN  call' = [call EXCEPT
                      !.yielded = Append(call.yielded, result),
                      !.location =
                          IF down = call.height
                          THEN IF call.location.x + 1 = call.width
                               THEN Loc(0, call.height)
                               ELSE Loc(call.location.x + 1, 0)
                          ELSE Loc(call.location.x, down)]
    /\ UNCHANGED gameVars

\* BoardIterator::next returns Some((location, square))
IterNextSome ==
    /\ call.fn = "iter"
    /\ call.location.y # call.height
    /\ LET result == [location |-> call.location,
                      square |-> at(call.data, call.location, call.width)]
           right == call.location.x + 1
       IN  call' = [call EXCEPT
                      !.yielded = Append(call.yielded, result),
                      !.location = IF right = call.width
                                   THEN Loc(0, call.location.y + 1)
                                   ELSE Loc(right, call.location.y)]
    /\ UNCHANGED gameVars

NextIter == IterAgain \/ IterNextNone \/ IterNextSome

SpecIter == InitIter /\ [][NextIter]_vars

\* C23: the pairs an iterator has yielded are the first cells in row-major
\* order from (0,0), each with the square stored for it; next() returns None
\* exactly when width*height pairs have been yielded, and then every cell
\* has appeared once; an iterator obtained by a new iter() starts over.
C23_IterationIsRowMajor ==
    LET n == call.width * call.height
    IN  /\ Len(call.yielded) <= n
        /\ \A i \in 1 .. Len(call.yielded) :
              call.yielded[i] =
                 [location |-> Loc((i - 1) % call.width, (i - 1) \div call.width),
                  square |-> call.data[((i - 1) \div call.width) * call.width
                                          + ((i - 1) % call.width)]]
        /\ (call.location.y = call.height) <=> (Len(call.yielded) = n)
        /\ call.ended => (Len(call.yielded) = n)
        /\ (Len(call.yielded) = n) =>
              /\ {call.yielded[i].location : i \in 1 .. n}
                    = Cells(call.width, call.height)
              /\ \A i, j \in 1 .. n :
                    (call.yielded[i].location = call.yielded[j].location) => i = j
        /\ (Len(call.yielded) < n) =>
              call.location = Loc(Len(call.yielded) % call.width,
                                  Len(call.yielded) \div call.width)

\* a second iterator over a board of two rows and three columns, holding
\* all three kinds of square, has yielded every cell and then ended
C23_Witness ==
    /\ call.again
    /\ call.ended
    /\ call.width = 3
    /\ call.height = 2
    /\ Len(call.yielded) = 6
    /\ {call.yielded[i].square : i \in 1 .. 6} = Square

-----------------------------------------------------------------------------
(* Two games side by side.                                                 *)

\* the test of Game::move_snake_and_get_status that leads to the random
\* source: the game is in progress and the new head is the fruit
fruit_is_reached(s, w, h) ==
    /\ s.status = "InProgress"
    /\ s.fruit = calcualte_new_head_location(s.snake, s.snake_size,
                     change_direction(s.next_direction, s.current_direction), w, h)

\* Snake::board on the fields s of a game, in a build with or without
\* overflow checks: the grid returned, or the panic of at_mut
board_outcomes(s, w, h, overflow_checks) ==
    LET writes == board_writes(s)
    IN  IF \/ WriteOutOfBounds(writes, w, h)
           \/ (overflow_checks /\ WriteOverflows(writes))
        THEN {[after |-> s, panic |-> TRUE, ret |-> "panic"]}
        ELSE {[after |-> s, panic |-> FALSE, ret |-> Rendered(writes, w, h)]}

\* a variant of TwinOutcomes in which every game has a random source of its
\* own: advance() may get any values, not the pair r
TwinOutcomesOwnSource(s, w, h, overflow_checks, input) ==
    CASE input.op = "set_direction" ->
            {[after |-> set_direction(s, input.d), panic |-> FALSE, ret |-> "none"]}
      [] input.op = "advance" ->
            {[after |-> o.after, panic |-> (o.ret = "panic"), ret |-> o.ret] :
                 o \in advance_outcomes(s, w, h)}
      [] input.op = "board" ->
            board_outcomes(s, w, h, overflow_checks)

\* the outcomes of one call on the fields s: set_direction(d), advance()
\* with the random source yielding the pair r, or board()
TwinOutcomes(s, w, h, overflow_checks, input) ==
    CASE input.op = "set_direction" ->
            {[after |-> set_direction(s, input.d), panic |-> FALSE, ret |-> "none"]}
      [] input.op = "advance" ->
            {[after |-> o.after, panic |-> (o.ret = "panic"), ret |-> o.ret] :
                 o \in advance_from(s, w, h, {input.r})}
      [] input.op = "board" ->
            board_outcomes(s, w, h, overflow_checks)

\* the builds that differ for a game with the fields s: with and without
\* overflow checks if a segment has a negative coordinate from the start,
\* and otherwise one build for both (no index overflows in either)
Builds(s) ==
    IF \E i \in 1 .. s.snake_size : s.snake[i].x < 0 \/ s.snake[i].y < 0
    THEN BOOLEAN
    ELSE {TRUE}

\* values RandomNumberGenerator::next gives the two games at a growth
TwinRandVals == {<<0, k>> : k \in 0 .. MaxTwinRand} \cup {<<65535, 65535>>}

\* two games built by Game::new with the same size and the same random
\* source, in one program: the first in the variables of the game, the
\* second in call
InitTwin ==
    /\ \E d \in Dims : \E r1, r2 \in RandVals :
          /\ d[1] * d[2] <= MaxTwinCells
          /\ NewSucceeds(d[1], d[2], r1, r2)
          /\ New(d[1], d[2], r1, r2)
    /\ op = "new"
    /\ ret = "none"
    /\ pre = Snapshot
    /\ \E overflow_checks \in Builds(Snapshot) :
          call = [fn |-> "twin", overflow_checks |-> overflow_checks,
                  s |-> Snapshot, ret |-> "none", panicked |-> FALSE]

\* both games get the same call; each takes an outcome of its own
TwinCall(input) ==
    /\ ~panicked
    /\ ~call.panicked
    /\ \E first \in TwinOutcomes(Snapshot, width, height,
                                 call.overflow_checks, input) :
       \E second \in TwinOutcomes(call.s, width, height,
                                  call.overflow_checks, input) :
          /\ snake' = first.after.snake
          /\ snake_size' = first.after.snake_size
          /\ fruit' = first.after.fruit
          /\ status' = first.after.status
          /\ current_direction' = first.after.current_direction
          /\ next_direction' = first.after.next_direction
          /\ rng' = first.after.rng
          /\ panicked' = first.panic
          /\ ret' = first.ret
          /\ op' = input.op
          /\ pre' = Snapshot
          /\ call' = [call EXCEPT !.s = second.after, !.ret = second.ret,
                                  !.panicked = second.panic]
    /\ UNCHANGED <<width, height>>

TwinSetDirection == \E d \in Direction : TwinCall([op |-> "set_direction", d |-> d])

\* the random source is read only when the fruit is reached: otherwise one
\* pair stands for all
TwinAdvance ==
    \E r \in (IF fruit_is_reached(Snapshot, width, height)
              THEN TwinRandVals \X TwinRandVals
              ELSE {<<<<0, 0>>, <<0, 0>>>>}) :
        TwinCall([op |-> "advance", r |-> r])

TwinBoard == TwinCall([op |-> "board"])

NextTwin == TwinSetDirection \/ TwinAdvance \/ TwinBoard

SpecTwin == InitTwin /\ [][NextTwin]_vars

-----------------------------------------------------------------------------
(* The game with the canned random source of the tests.                    *)

\* a variant of CannedNumbers with the first two numbers in the other order
CannedNumbersSwapped == <<2, 4, 4, 3, 4, 4>>

\* HardcodedNumbersGenerator::default: the numbers
CannedNumbers == <<4, 2, 4, 3, 4, 4>>

\* a variant of canned_next that never moves on: it yields the first number
\* again and again
canned_next_stuck(k) == <<0, CannedNumbers[1]>>

\* HardcodedNumbersGenerator::next when k values have been drawn before
canned_next(k) == <<0, CannedNumbers[(k % Len(CannedNumbers)) + 1]>>

\* the runs of the tests: the board, and the calls in order (a direction
\* stands for set_direction of it)
Forward == [width |-> 5, height |-> 5, inputs |-> <<"advance", "advance">>]
TurnUp == [width |-> 5, height |-> 5, inputs |-> <<"Up", "advance">>]
FillBoard ==
    [width |-> 3, height |-> 3,
     inputs |-> <<"Down", "advance", "advance", "Right", "advance",
                  "Down", "advance", "advance", "Right", "advance",
                  "Down", "advance", "advance", "Right", "advance",
                  "Down", "advance", "advance", "board">>]
DownOnly ==
    [width |-> 3, height |-> 3,
     inputs |-> <<"Down", "advance", "advance", "advance", "advance">>]
Scenarios == {Forward, TurnUp, FillBoard, DownOnly}

\* the calls made so far are the beginning of scenario sc on this board
Follows(sc, inputs) ==
    /\ sc.width = width
    /\ sc.height = height
    /\ Len(inputs) <= Len(sc.inputs)
    /\ SubSeq(sc.inputs, 1, Len(inputs)) = inputs

\* create_game_instance!(width, height, HardcodedNumbersGenerator)
InitCanned ==
    /\ \E sc \in Scenarios :
          New(sc.width, sc.height, canned_next(0), canned_next(1))
    /\ op = "new"
    /\ ret = "none"
    /\ pre = Snapshot
    /\ call = [fn |-> "canned", on |-> TRUE, inputs |-> <<>>]

\* the call that the input i stands for, with the values the random source
\* yields next
CannedInput(i) ==
    CASE i \in Direction -> [op |-> "set_direction", d |-> i]
      [] i = "advance" -> [op |-> "advance",
                           r |-> <<canned_next(rng), canned_next(rng + 1)>>]
      [] i = "board" -> [op |-> "board"]

\* one call on the game; call records the calls made while they follow a
\* scenario
CannedCall(i) ==
    LET inputs == Append(call.inputs, i)
        on == call.on /\ \E sc \in Scenarios : Follows(sc, inputs)
    IN  /\ ~panicked
        /\ on \/ width * height <= MaxCannedCells
        /\ \E o \in TwinOutcomes(Snapshot, width, height, TRUE, CannedInput(i)) :
              /\ snake' = o.after.snake
              /\ snake_size' = o.after.snake_size
              /\ fruit' = o.after.fruit
              /\ status' = o.after.status
              /\ current_direction' = o.after.current_direction
              /\ next_direction' = o.after.next_direction
              /\ rng' = o.after.rng
              /\ panicked' = o.panic
              /\ ret' = o.ret
              /\ op' = CannedInput(i).op
              /\ pre' = Snapshot
        /\ call' = [call EXCEPT !.on = on,
                                !.inputs = IF on THEN inputs ELSE <<>>]
        /\ UNCHANGED <<width, height>>

CannedSetDirection == \E d \in Direction : CannedCall(d)

CannedAdvance == CannedCall("advance")

CannedBoard == CannedCall("board")

NextCanned == CannedSetDirection \/ CannedAdvance \/ CannedBoard

SpecCanned == InitCanned /\ [][NextCanned]_vars

\* the calls made so far are the first n calls of scenario sc
After(sc, n) ==
    /\ call.on
    /\ width = sc.width
    /\ height = sc.height
    /\ call.inputs = SubSeq(sc.inputs, 1, n)

\* the cells of the grid board() would return that hold the square sq
CellsShowing(sq) ==
    {l \in AllCells : BoardOutcome.grid[at_index(l, width)] = sq}

\* C26: on the 5x5 board with the canned random source and no direction
\* change, the first advance() returns InProgress and leaves Snake exactly at
\* (2,2), (3,2) and the Fruit at (4,2); the second returns InProgress and
\* leaves Snake exactly at (2,2), (3,2), (4,2) and the Fruit at (4,3).
C26_ForwardTwice ==
    /\ After(Forward, 1) =>
          /\ ret = "InProgress"
          /\ Locations(live(snake, snake_size)) = {Loc(2, 2), Loc(3, 2)}
          /\ fruit = Loc(4, 2)
          /\ CellsShowing("Snake") = {Loc(2, 2), Loc(3, 2)}
          /\ CellsShowing("Fruit") = {Loc(4, 2)}
    /\ After(Forward, 2) =>
          /\ ret = "InProgress"
          /\ Locations(live(snake, snake_size)) = {Loc(2, 2), Loc(3, 2), Loc(4, 2)}
          /\ fruit = Loc(4, 3)
          /\ CellsShowing("Snake") = {Loc(2, 2), Loc(3, 2), Loc(4, 2)}
          /\ CellsShowing("Fruit") = {Loc(4, 3)}

\* the second advance() of the run has been made: the snake has eaten
C26_Witness ==
    /\ After(Forward, 2)
    /\ op = "advance"
    /\ snake_size = 3
    /\ pre.fruit = Loc(4, 2)

\* the advance() of FillBoard that wins (the last but two of its calls)
WinningCall == Len(FillBoard.inputs) - 2

\* C27: on the 3x3 board with the canned random source, the calls Down,
\* advance, advance, Right, advance (three times), Down, advance return
\* InProgress from every advance but the last, Won from the last and from
\* one more advance, and board() then returns Snake in all 9 cells.
C27_WonIsReached ==
    \A k \in 1 .. Len(FillBoard.inputs) :
        After(FillBoard, k) =>
            CASE FillBoard.inputs[k] = "advance" ->
                    /\ ret = IF k >= WinningCall THEN "Won" ELSE "InProgress"
                    /\ status = ret
              [] FillBoard.inputs[k] = "board" ->
                    /\ ~panicked
                    /\ status = "Won"
                    /\ snake_size = 9
                    /\ ret = Filled("Snake")
              [] OTHER -> status = "InProgress"

\* all the calls of the run have been made and board() has returned
C27_Witness ==
    /\ After(FillBoard, Len(FillBoard.inputs))
    /\ op = "board"
    /\ ~panicked
    /\ status = "Won"
    /\ ret = Filled("Snake")

\* C28 (as the code has it): on the 5x5 board with the canned random
\* source, set_direction(Up) and one advance() drop the tail (1,2) and leave
\* the live snake as tail (2,2), head (2,1): the head moves straight up.
C28_TurnUpMovesHeadUp ==
    After(TurnUp, 2) =>
        /\ ret = "InProgress"
        /\ snake_size = 2
        /\ snake[1] = Loc(2, 2)
        /\ snake[2] = Loc(2, 1)
        /\ Loc(1, 2) \notin Locations(live(snake, snake_size))
        /\ pre.snake[1] = Loc(1, 2)

\* C28 as stated: after set_direction(Up) and one advance() the live snake
\* is tail (2,2), head (3,1).
C28_TurnUpAsStated ==
    After(TurnUp, 2) =>
        /\ snake_size = 2
        /\ snake[1] = Loc(2, 2)
        /\ snake[2] = Loc(3, 1)
        /\ Loc(1, 2) \notin Locations(live(snake, snake_size))

\* set_direction(Up) and one advance() have been made from the initial
\* state
C28_Witness ==
    /\ After(TurnUp, 2)
    /\ op = "advance"
    /\ current_direction = "Up"
    /\ pre.current_direction = "Right"
    /\ pre.snake[2] = Loc(2, 2)

\* C29 (as the code has it): on the 3x3 board with the canned random
\* source, after set_direction(Down) the first two advance() calls return
\* InProgress and grow the snake to 3 and 4 segments, the third meets the
\* snake's own body and returns Lost, and so does the fourth; the game is
\* never Won.
C29_DownOnlyLoses ==
    /\ After(DownOnly, 2) => (ret = "InProgress" /\ snake_size = 3)
    /\ After(DownOnly, 3) => (ret = "InProgress" /\ snake_size = 4)
    /\ After(DownOnly, 4) =>
          /\ ret = "Lost"
          /\ snake_size = 4
          /\ PreNewHead \in PreLive
    /\ After(DownOnly, 5) => (ret = "Lost" /\ snake_size = 4)
    /\ \A k \in 1 .. Len(DownOnly.inputs) : After(DownOnly, k) => status # "Won"

\* C29 as stated: with Down moves only the snake grows until it fills the
\* board: no advance() of the run returns Lost, and the run is over only
\* with Won and 9 segments.
C29_DownOnlyFillsBoard ==
    \A k \in 2 .. Len(DownOnly.inputs) :
        After(DownOnly, k) =>
            /\ ret # "Lost"
            /\ (status # "InProgress") => (status = "Won" /\ snake_size = 9)

\* the third advance() of the run has met the body
C29_Witness ==
    /\ After(DownOnly, 4)
    /\ op = "advance"
    /\ pre.status = "InProgress"
    /\ status = "Lost"

-----------------------------------------------------------------------------
(* The game with the values of the random source on record: call holds the  *)
(* two values the last operation took from RandomNumberGenerator::next, if  *)
(* it took any.                                                             *)

\* the record of the values r = <<r1, r2>> an operation drew
Drew(r) == [fn |-> "draws", drawn |-> TRUE, r |-> r]
DrewNothing == [fn |-> "draws", drawn |-> FALSE, r |-> <<>>]

\* Game::new with the two values it draws for the first fruit
InitDraws ==
    /\ \E d \in Dims : \E r1, r2 \in RandVals :
          /\ d[1] * d[2] <= MaxDrawCells
          /\ NewSucceeds(d[1], d[2], r1, r2)
          /\ New(d[1], d[2], r1, r2)
          /\ call = Drew(<<r1, r2>>)
    /\ op = "new"
    /\ ret = "none"
    /\ pre = Snapshot

\* one call on the game; reads tells whether it reads the random source
DrawsCall(input, reads) ==
    /\ ~panicked
    /\ \E overflow_checks \in Builds(Snapshot) :
       \E o \in TwinOutcomes(Snapshot, width, height, overflow_checks, input) :
          /\ snake' = o.after.snake
          /\ snake_size' = o.after.snake_size
          /\ fruit' = o.after.fruit
          /\ status' = o.after.status
          /\ current_direction' = o.after.current_direction
          /\ next_direction' = o.after.next_direction
          /\ rng' = o.after.rng
          /\ panicked' = o.panic
          /\ ret' = o.ret
          /\ op' = input.op
          /\ pre' = Snapshot
          /\ call' = IF reads /\ ~o.panic THEN Drew(input.r) ELSE DrewNothing
    /\ UNCHANGED <<width, height>>

DrawsSetDirection ==
    \E d \in Direction : DrawsCall([op |-> "set_direction", d |-> d], FALSE)

\* advance() reads the random source when the new head reaches the fruit
DrawsAdvance ==
    LET reads == fruit_is_reached(Snapshot, width, height)
    IN  \E r \in (IF reads THEN RandVals \X RandVals
                           ELSE {<<<<0, 0>>, <<0, 0>>>>}) :
            DrawsCall([op |-> "advance", r |-> r], reads)

DrawsBoard == DrawsCall([op |-> "board"], FALSE)

NextDraws == DrawsSetDirection \/ DrawsAdvance \/ DrawsBoard

SpecDraws == InitDraws /\ [][NextDraws]_vars

\* the value r of the random source is negative as i32 and a multiple of n
NegativeMultiple(r, n) == as_i32(r) < 0 /\ Rem(as_i32(r), n) = 0

\* C31: whatever values the random source yields (values that are negative
\* as i32, negative multiples of the width or height among them), the fruit
\* of a game in progress lies within [0, width) x [0, height), and the
\* index board() computes for it lies within the grid.
C31_FruitInsideBoard ==
    status = "InProgress" =>
        /\ fruit.x \in 0 .. width - 1
        /\ fruit.y \in 0 .. height - 1
        /\ at_index(fruit, width) \in 0 .. width * height - 1

\* a fruit has been placed at a growth from two values that are negative
\* multiples of the width and of the height, on a board where the wrap of
\* such a value is the bound itself, and another from a value with the top
\* bit set
C31_Witness ==
    /\ op = "advance"
    /\ status = "InProgress"
    /\ snake_size = pre.snake_size + 1
    /\ call.drawn
    /\ \/ /\ NegativeMultiple(call.r[1], width)
          /\ NegativeMultiple(call.r[2], height)
          /\ wrap_coord(as_i32(call.r[1]), width) = width
       \/ call.r[1] = <<32768, 1>>

-----------------------------------------------------------------------------
(* The earlier engine of src/src/lib.rs: one field `direction`, written by  *)
(* up/left/down/right with the guard applied when the request is made.  It  *)
(* is run side by side with the game of snake-core: the game of snake-core  *)
(* in the variables of the game, the earlier engine in call.                *)

\* boards of up to MaxLegacyCells cells
LegacyDims == {d \in Dims : d[1] * d[2] <= MaxLegacyCells}

\* Game::new of the earlier engine, for the values r1, r2 of the random
\* source: the fields of the game
legacy_new(w, h, r1, r2) ==
    [snake |-> InitialSnake(w, h),
     snake_size |-> 2,
     direction |-> "Right",
     fruit |-> game_place_new_fruit(r1, r2, w, h, live(InitialSnake(w, h), 2)),
     status |-> "InProgress",
     rng |-> 2]

up(s) == IF s.direction # "Down" THEN [s EXCEPT !.direction = "Up"] ELSE s

\* a variant of left without the guard
left_unguarded(s) == [s EXCEPT !.direction = "Left"]

left(s) == IF s.direction # "Right" THEN [s EXCEPT !.direction = "Left"] ELSE s

down(s) == IF s.direction # "Up" THEN [s EXCEPT !.direction = "Down"] ELSE s

right(s) == IF s.direction # "Left" THEN [s EXCEPT !.direction = "Right"] ELSE s

\* the request of direction d on the earlier engine
legacy_request(s, d) ==
    CASE d = "Up" -> up(s)
      [] d = "Left" -> left(s)
      [] d = "Down" -> down(s)
      [] d = "Right" -> right(s)

\* Snake::advance of the earlier engine on the fields s, with the random
\* source yielding the pair r if it is read: the fields after the call and
\* what it returns ("panic" if eat_the_fruit indexes past the backing array)
legacy_advance(s, w, h, r) ==
    IF s.status # "InProgress"
    THEN [after |-> s, ret |-> s.status]
    ELSE
      LET new_location == calcualte_new_head_location(s.snake, s.snake_size,
                                                      s.direction, w, h)
      IN  IF s.fruit = new_location
          THEN IF s.snake_size >= Len(s.snake)
               THEN [after |-> s, ret |-> "panic"]
               ELSE LET grown == eat_the_fruit(s.snake, s.snake_size, s.fruit)
                        placed == game_place_new_fruit(r[1], r[2], w, h,
                                      live(grown, s.snake_size + 1))
                        result == IF placed = None THEN "Won" ELSE "InProgress"
                    IN  [after |-> [s EXCEPT
                                      !.snake = grown,
                                      !.snake_size = s.snake_size + 1,
                                      !.rng = s.rng + 2,
                                      !.fruit = IF placed = None THEN s.fruit
                                                ELSE placed,
                                      !.status = result],
                         ret |-> result]
          ELSE IF new_location \in Locations(live(s.snake, s.snake_size))
               THEN [after |-> [s EXCEPT !.status = "Lost"], ret |-> "Lost"]
               ELSE [after |-> [s EXCEPT
                                  !.snake = move_snake_in_current_direction(
                                                s.snake, s.snake_size, new_location),
                                  !.status = "InProgress"],
                     ret |-> "InProgress"]

\* both engines are built with the same size and the same random source.
\* call.used is the direction of the last advance() of the earlier engine
\* on a game in progress (Right before the first), call.before the one of
\* the advance() before it, call.requests the number of requests since the
\* last advance() (2 for two or more), call.single tells that no tick so far
\* had more than one request.  A run is followed up to the first advance()
\* of a tick with more than one request.
InitLegacy ==
    /\ \E d \in LegacyDims : \E r1, r2 \in RandVals :
          /\ NewSucceeds(d[1], d[2], r1, r2)
          /\ New(d[1], d[2], r1, r2)
          /\ call = [fn |-> "legacy", s |-> legacy_new(d[1], d[2], r1, r2),
                     panicked |-> FALSE, ret |-> "none",
                     used |-> "Right", before |-> "Right", moved |-> FALSE,
                     requests |-> 0, single |-> TRUE]
    /\ op = "new"
    /\ ret = "none"
    /\ pre = Snapshot

\* the key for direction d: up/left/down/right on the earlier engine,
\* set_direction(d) on the game of snake-core
LegacyRequest(d) ==
    /\ ~panicked
    /\ ~call.panicked
    /\ call.single
    /\ next_direction' = set_direction(Snapshot, d).next_direction
    /\ op' = "set_direction"
    /\ ret' = "none"
    /\ pre' = Snapshot
    /\ call' = [call EXCEPT !.s = legacy_request(call.s, d),
                            !.ret = "none",
                            !.moved = FALSE,
                            !.requests = IF call.requests = 0 THEN 1 ELSE 2]
    /\ UNCHANGED <<width, height, snake, snake_size, current_direction,
                   fruit, status, rng, panicked>>

LegacyUp == LegacyRequest("Up")
LegacyLeft == LegacyRequest("Left")
LegacyDown == LegacyRequest("Down")
LegacyRight == LegacyRequest("Right")

\* one tick: advance() on both engines; the random sources of both yield
\* the pair r when they are read
LegacyAdvance ==
    /\ ~panicked
    /\ ~call.panicked
    /\ call.single
    /\ \E r \in (IF \/ fruit_is_reached(Snapshot, width, height)
                    \/ legacy_advance(call.s, width, height,
                                      <<<<0, 0>>, <<0, 0>>>>).after.rng # call.s.rng
                 THEN RandVals \X RandVals
                 ELSE {<<<<0, 0>>, <<0, 0>>>>}) :
       \E o \in TwinOutcomes(Snapshot, width, height, TRUE,
                             [op |-> "advance", r |-> r]) :
          LET l == legacy_advance(call.s, width, height, r)
              moves == call.s.status = "InProgress"
          IN  /\ snake' = o.after.snake
              /\ snake_size' = o.after.snake_size
              /\ fruit' = o.after.fruit
              /\ status' = o.after.status
              /\ current_direction' = o.after.current_direction
              /\ next_direction' = o.after.next_direction
              /\ rng' = o.after.rng
              /\ panicked' = o.panic
              /\ ret' = o.ret
              /\ op' = "advance"
              /\ pre' = Snapshot
              /\ call' = [call EXCEPT
                            !.s = l.after,
                            !.ret = l.ret,
                            !.panicked = (l.ret = "panic"),
                            !.moved = moves,
                            !.used = IF moves THEN call.s.direction ELSE call.used,
                            !.before = IF moves THEN call.used ELSE call.before,
                            !.requests = 0,
                            !.single = call.single /\ call.requests <= 1]
    /\ UNCHANGED <<width, height>>

NextLegacy ==
    LegacyUp \/ LegacyLeft \/ LegacyDown \/ LegacyRight \/ LegacyAdvance

SpecLegacy == InitLegacy /\ [][NextLegacy]_vars

\* C32: in the earlier engine, whatever direction calls are made between two
\* advance() calls on a game in progress, the direction the later advance()
\* uses is not the opposite of the direction the earlier one used (Right
\* before the first advance).
C32_LegacyNeverReverses ==
    (op = "advance" /\ call.moved) => call.used # Opposite(call.before)

\* the two engines hold the same snake, fruit and status, and returned the
\* same from the last call
EnginesAgree ==
    /\ call.panicked = panicked
    /\ call.ret = ret
    /\ call.s.snake = snake
    /\ call.s.snake_size = snake_size
    /\ call.s.fruit = fruit
    /\ call.s.status = status

\* C37: while no tick has had more than one direction request, the earlier
\* engine (guard at the request) and the engine of snake-core (guard at the
\* advance), built with the same size and given the same values by the
\* random source, have equal snake, fruit and status after every advance()
\* (and return the same from it).
C37_EnginesAgreeOnSingleRequests ==
    (op = "advance" /\ call.single) => EnginesAgree

\* an advance() has followed a single request of the reverse direction,
\* which the earlier engine refused at the request and the engine of
\* snake-core at the advance, in a run with at most one request a tick in
\* which the snake has turned and grown
C37_Witness ==
    /\ op = "advance"
    /\ call.single
    /\ ~panicked
    /\ status = "InProgress"
    /\ snake_size >= 3
    /\ current_direction # "Right"
    /\ next_direction = Opposite(current_direction)
    /\ call.s.direction = current_direction
    /\ EnginesAgree

-----------------------------------------------------------------------------
(* The stm32 adapter (snake-stm32f4discovery): the main flow and the TIM2   *)
(* interrupt share the game in MUTEX_GAME.  The variables of the game hold  *)
(* the game in the cell (NoGame while the cell is empty); call holds the    *)
(* position of the main flow and its local `status` (returned), the state   *)
(* of the game's SimpleRNG, the last reading of the joystick and the grid   *)
(* last drawn.                                                              *)

\* SimpleRNG::default
SimpleRNGDefault == 34

\* a variant of simple_rng_next that counts up
simple_rng_next_counting(x) == (x + 1) % 11

\* SimpleRNG::next: the new x, which is also the value returned
simple_rng_next(x) == (7 * x) % 11

\* the boards the adapter is run on
StmDims == {d \in Dims : d[1] >= 2 /\ d[2] >= 2 /\ d[1] * d[2] <= MaxStmCells}

\* joystick::Direction
Joystick == Direction \cup {"Center"}

\* the statics before init: the cell is empty, the interrupt is not enabled
InitStm ==
    /\ NoGame
    /\ \E d \in StmDims :
          call = [fn |-> "stm", pc |-> "init", width |-> d[1], height |-> d[2],
                  game |-> FALSE, instance |-> 0, x |-> SimpleRNGDefault,
                  joy |-> "Center", shown |-> "none", returned |-> "none"]

\* init: the interrupt is enabled in the NVIC and the timer listens; the
\* main flow goes on to init_game (the logo and the delay of 3 s)
StmInit ==
    /\ ~panicked
    /\ call.pc = "init"
    /\ call' = [call EXCEPT !.pc = "logo"]
    /\ UNCHANGED gameVars

\* a variant of StmInstall that leaves a game that is in the cell where it
\* is
StmInstallOnce ==
    /\ ~panicked
    /\ call.pc = "logo"
    /\ LET r1 == simple_rng_next(SimpleRNGDefault)
           r2 == simple_rng_next(r1)
           w == call.width
           h == call.height
       IN  IF call.game
           THEN /\ UNCHANGED <<width, height, snake, snake_size, current_direction,
                               next_direction, fruit, status, rng, panicked>>
                /\ op' = "new"
                /\ ret' = "none"
                /\ pre' = Snapshot
                /\ call' = [call EXCEPT !.pc = "loop"]
           ELSE /\ width' = w
                /\ height' = h
                /\ snake' = InitialSnake(w, h)
                /\ snake_size' = 2
                /\ current_direction' = "Right"
                /\ next_direction' = "Right"
                /\ fruit' = game_place_new_fruit(<<0, r1>>, <<0, r2>>, w, h,
                                                 live(InitialSnake(w, h), 2))
                /\ status' = "InProgress"
                /\ rng' = 2
                /\ op' = "new"
                /\ ret' = "none"
                /\ pre' = Snapshot
                /\ call' = [call EXCEPT !.pc = "loop", !.game = TRUE,
                                        !.instance = 1 - call.instance, !.x = r2]
                /\ UNCHANGED panicked

\* the end of init_game: the cell is given a game built by
\* create_game_instance! with a SimpleRNG of its own
StmInstall ==
    /\ ~panicked
    /\ call.pc = "logo"
    /\ LET r1 == simple_rng_next(SimpleRNGDefault)
           r2 == simple_rng_next(r1)
           w == call.width
           h == call.height
       IN  /\ width' = w
           /\ height' = h
           /\ snake' = InitialSnake(w, h)
           /\ snake_size' = 2
           /\ current_direction' = "Right"
           /\ next_direction' = "Right"
           /\ fruit' = game_place_new_fruit(<<0, r1>>, <<0, r2>>, w, h,
                                            live(InitialSnake(w, h), 2))
           /\ status' = "InProgress"
           /\ rng' = 2
           /\ op' = "new"
           /\ ret' = "none"
           /\ pre' = Snapshot
           /\ call' = [call EXCEPT !.pc = "loop", !.game = TRUE,
                                   !.instance = 1 - call.instance, !.x = r2]
    /\ UNCHANGED panicked

\* the critical section of the main loop: advance(), then board() and the
\* drawing of the grid it returns
StmTick ==
    /\ ~panicked
    /\ call.pc = "loop"
    /\ LET r1 == simple_rng_next(call.x)
           r2 == simple_rng_next(r1)
           reads == fruit_is_reached(Snapshot, width, height)
       IN  \E o \in TwinOutcomes(Snapshot, width, height, TRUE,
                                 [op |-> "advance", r |-> <<<<0, r1>>, <<0, r2>>>>]) :
           \E overflow_checks \in Builds(o.after) :
           \E b \in board_outcomes(o.after, width, height, overflow_checks) :
              /\ snake' = o.after.snake
              /\ snake_size' = o.after.snake_size
              /\ fruit' = o.after.fruit
              /\ status' = o.after.status
              /\ current_direction' = o.after.current_direction
              /\ next_direction' = o.after.next_direction
              /\ rng' = o.after.rng
              /\ panicked' = (o.panic \/ b.panic)
              /\ ret' = o.ret
              /\ op' = "advance"
              /\ pre' = Snapshot
              /\ call' = [call EXCEPT
                            !.pc = "check",
                            !.returned = o.ret,
                            !.x = IF reads /\ ~o.panic THEN r2 ELSE call.x,
                            !.shown = IF o.panic THEN call.shown ELSE b.ret]
    /\ UNCHANGED <<width, height>>

\* a variant of restart_needed that also restarts a game that is won
restart_when_over(returned) == returned # "InProgress"

\* the test of the main loop on the status advance() returned
restart_needed(returned) == returned = "Lost"

\* the rest of the loop body: init_game again if the game is lost, and the
\* delay
StmCheck ==
    /\ ~panicked
    /\ call.pc = "check"
    /\ call' = [call EXCEPT !.pc = IF restart_needed(call.returned) THEN "logo"
                                   ELSE "loop"]
    /\ UNCHANGED gameVars

\* the TIM2 handler, which runs whenever the main flow is not inside a
\* critical section once init has enabled it: it reads the joystick and, for
\* a reading j other than Center, unwraps the cell and calls set_direction
StmInterrupt(j) ==
    /\ ~panicked
    /\ call.pc # "init"
    /\ IF j = "Center"
       THEN /\ call' = [call EXCEPT !.joy = j]
            /\ UNCHANGED gameVars
       ELSE IF ~call.game
            THEN \* Option::unwrap on None
                 /\ panicked' = TRUE
                 /\ op' = "set_direction"
                 /\ ret' = "panic"
                 /\ call' = [call EXCEPT !.joy = j]
                 /\ UNCHANGED <<width, height, snake, snake_size, current_direction,
                                next_direction, fruit, status, rng, pre>>
            ELSE /\ next_direction' = set_direction(Snapshot, j).next_direction
                 /\ op' = "set_direction"
                 /\ ret' = "none"
                 /\ pre' = Snapshot
                 /\ call' = [call EXCEPT !.joy = j]
                 /\ UNCHANGED <<width, height, snake, snake_size, current_direction,
                                fruit, status, rng, panicked>>

StmTIM2 == \E j \in Joystick : StmInterrupt(j)

NextStm == StmInit \/ StmInstall \/ StmTick \/ StmCheck \/ StmTIM2

SpecStm == InitStm /\ [][NextStm]_vars

\* C33: whenever the TIM2 handler has run with a reading other than Center,
\* it found a game in the cell: its unwrap did not panic.
C33_HandlerFindsGame ==
    (op = "set_direction" /\ call.joy # "Center") => (call.game /\ ~panicked)

\* C34: in the stm32 main loop advance() is never called on a game that is
\* Lost: after an advance() that returned Lost the main flow runs init_game,
\* and the game it finds at the next advance() is a fresh one (the game
\* init_game installs is in progress with 2 segments), whatever the TIM2
\* interrupt does in between.
C34_LostGameIsReplaced ==
    /\ (op = "advance") => (pre.status # "Lost")
    /\ (call.pc = "loop") => (call.game /\ status # "Lost")
    /\ (call.pc = "logo" /\ call.game) => (status = "Lost")
    /\ (op = "new") =>
          /\ status = "InProgress"
          /\ snake_size = 2
          /\ snake = InitialSnake(width, height)
          /\ call.game

\* the first advance() on the game that replaced a lost one has been made,
\* after the interrupt had set a direction on it
C34_Witness ==
    /\ op = "advance"
    /\ call.instance = 0
    /\ call.game
    /\ pre.snake = InitialSnake(width, height)
    /\ pre.snake_size = 2
    /\ pre.next_direction # "Right"
    /\ ~panicked

\* C38: in the stm32 main loop a game that is Won stays in the cell: no
\* step replaces it or changes its snake, the main flow never goes to
\* init_game, every advance() on it returns Won, and the grid drawn is
\* Snake in every cell, whatever readings the joystick gives.
C38_WonGameIsKept ==
    [][(call.game /\ status = "Won") =>
          /\ call.shown = Filled("Snake")
          /\ status' = "Won"
          /\ call'.game
          /\ call'.instance = call.instance
          /\ snake' = snake
          /\ snake_size' = snake_size
          /\ call'.pc \in {"loop", "check"}
          /\ call'.shown = Filled("Snake")
          /\ (op' = "advance" => (ret' = "Won" /\ call'.returned = "Won"))
          /\ ~panicked']_vars

\* advance() has been called on a game that was already Won, after the
\* interrupt had set a direction on it
C38_Witness ==
    /\ call.game
    /\ op = "advance"
    /\ pre.status = "Won"
    /\ pre.next_direction # pre.current_direction
    /\ status = "Won"
    /\ ret = "Won"
    /\ call.shown = Filled("Snake")

-----------------------------------------------------------------------------
(* SimpleRNG on its own, as init_game and the game use it: a generator is  *)
(* made by SimpleRNG::default() for each game, Game::new calls next()      *)
(* twice, and every growth calls it twice more.  call holds the state x of *)
(* the generator, the values it has returned (outs) and the number of      *)
(* generators made before it (games); the variables of the game hold the   *)
(* game init_game built last, on the board of the adapter.                  *)

\* create_game_instance!(22, 16, SimpleRNG)
StmWidth == 22
StmHeight == 16

InitRng ==
    /\ NoGame
    /\ call = [fn |-> "rng", x |-> SimpleRNGDefault, outs |-> <<>>, games |-> 0]

\* Game::new in init_game: two calls of next() on the new generator
RngNewGame ==
    /\ call.fn = "rng"
    /\ call.outs = <<>>
    /\ LET r1 == simple_rng_next(call.x)
           r2 == simple_rng_next(r1)
       IN  /\ width' = StmWidth
           /\ height' = StmHeight
           /\ snake' = InitialSnake(StmWidth, StmHeight)
           /\ snake_size' = 2
           /\ current_direction' = "Right"
           /\ next_direction' = "Right"
           /\ fruit' = game_place_new_fruit(<<0, r1>>, <<0, r2>>, StmWidth, StmHeight,
                                            live(InitialSnake(StmWidth, StmHeight), 2))
           /\ status' = "InProgress"
           /\ rng' = 2
           /\ op' = "new"
           /\ ret' = "none"
           /\ pre' = Snapshot
           /\ call' = [call EXCEPT !.x = r2, !.outs = <<r1, r2>>]
    /\ UNCHANGED panicked

\* one more call of next() on the generator of the game
RngNext ==
    /\ call.fn = "rng"
    /\ Len(call.outs) >= 2
    /\ Len(call.outs) < MaxDraws
    /\ call' = [call EXCEPT !.x = simple_rng_next(call.x),
                            !.outs = Append(call.outs, simple_rng_next(call.x))]
    /\ UNCHANGED gameVars

\* SimpleRNG::default() for the next game of init_game
RngDefault ==
    /\ call.fn = "rng"
    /\ Len(call.outs) >= 2
    /\ call.games < MaxGames
    /\ call' = [call EXCEPT !.x = SimpleRNGDefault, !.outs = <<>>,
                            !.games = call.games + 1]
    /\ UNCHANGED gameVars

NextRng == RngNewGame \/ RngNext \/ RngDefault

SpecRng == InitRng /\ [][NextRng]_vars

\* C39: from the seed 34, every value SimpleRNG::next returns is in 1 .. 10
\* (never 0); the values start 7, 5 and repeat with period 10 (and no
\* shorter one); every game init_game builds starts in the same state: the
\* snake of Game::new and the fruit at (7, 5).
C39_SimpleRNGSequence ==
    call.fn = "rng" =>
      LET outs == call.outs
      IN  /\ \A i \in 1 .. Len(outs) : outs[i] \in 1 .. 10
          /\ Len(outs) >= 1 => outs[1] = 7
          /\ Len(outs) >= 2 => outs[2] = 5
          /\ \A i \in 1 .. Len(outs) : i > 10 => outs[i] = outs[i - 10]
          /\ \A i, j \in 1 .. Len(outs) : (i < j /\ j - i < 10) => outs[i] # outs[j]
          /\ (outs = <<>>) = (call.x = SimpleRNGDefault)
          /\ op = "new" =>
                /\ snake = InitialSnake(StmWidth, StmHeight)
                /\ snake_size = 2
                /\ fruit = Loc(7, 5)
                /\ status = "InProgress"
                /\ current_direction = "Right"
                /\ next_direction = "Right"

\* a later generator has returned more than a period of values, after the
\* game was built from its first two
C39_Witness ==
    /\ call.fn = "rng"
    /\ call.games >= 1
    /\ Len(call.outs) >= 12
    /\ op = "new"
    /\ fruit = Loc(7, 5)

-----------------------------------------------------------------------------
(* The shape of the snake.                                                  *)

\* a and b are next to each other on the torus: one step apart in one
\* coordinate, modulo the side, and equal in the other
ToroidalNeighbours(a, b) ==
    LET dx == (b.x - a.x) % width
        dy == (b.y - a.y) % height
    IN  \/ dx \in {1, width - 1} /\ dy = 0
        \/ dx = 0 /\ dy \in {1, height - 1}

\* C36: on boards with width >= 2 and height >= 2, every two consecutive
\* live segments are neighbours on the torus, in every state.
C36_SegmentsAreNeighbours ==
    (width >= 2 /\ height >= 2) =>
        \A i \in 1 .. snake_size - 1 : ToroidalNeighbours(snake[i], snake[i + 1])

\* a snake that has grown and moved lies across the edge of a board three
\* cells wide, and has turned
C36_Witness ==
    /\ width >= 3
    /\ height >= 2
    /\ snake_size >= 4
    /\ op = "advance"
    /\ snake # pre.snake
    /\ \E i \in 1 .. snake_size - 1 : snake[i].x = width - 1 /\ snake[i + 1].x = 0
    /\ \E i \in 1 .. snake_size - 1 : snake[i].y # snake[i + 1].y
    /\ C36_SegmentsAreNeighbours

-----------------------------------------------------------------------------
(* The x86 adapter (snake-x86): the tick thread and the thread of the       *)
(* cursive event loop (key callbacks and the draw callback) share the game  *)
(* in an Arc<Mutex<..>>.  It calls up/left/down/right, the operations of    *)
(* the earlier engine; the variables of the game hold its fields (its one   *)
(* `direction` in both current_direction and next_direction).  An engine    *)
(* operation is not one step here: it begins by reading the game and ends   *)
(* by writing the result for what it read.  call holds the holder of the    *)
(* mutex and, for each thread, its position (pc), the operation it is at    *)
(* (doing) and the fields it read when the operation began (seen).          *)

Threads == {"tick", "ui"}

\* the operations of the callbacks: the four keys and the draw
UiOps == Direction \cup {"draw"}

\* the boards the adapter is run on
X86Dims == {d \in Dims : d[1] >= 2 /\ d[2] >= 2 /\ d[1] * d[2] <= MaxX86Cells}

\* the fields of the game, as the earlier engine has them
X86Fields ==
    [snake |-> snake, snake_size |-> snake_size, direction |-> current_direction,
     fruit |-> fruit, status |-> status, rng |-> rng]

NothingSeen == [status |-> "none"]

\* main up to siv.run(): the game is built and moved into the mutex, the
\* callbacks are registered and the tick thread is spawned
InitX86 ==
    /\ \E d \in X86Dims : \E r1, r2 \in RandVals :
          /\ NewSucceeds(d[1], d[2], r1, r2)
          /\ New(d[1], d[2], r1, r2)
    /\ op = "new"
    /\ ret = "none"
    /\ pre = Snapshot
    /\ call = [fn |-> "x86", lock |-> "free",
               pc |-> [t \in Threads |-> "out"],
               doing |-> [t \in Threads |-> "none"],
               seen |-> [t \in Threads |-> NothingSeen]]

\* a variant of X86Lock that does not wait for the mutex to be free
X86LockNoWait(t, o) ==
    /\ ~panicked
    /\ call.pc[t] = "out"
    /\ call' = [call EXCEPT !.lock = t, !.pc[t] = "locked", !.doing[t] = o]
    /\ UNCHANGED gameVars

\* g.lock().unwrap() by thread t, on its way to operation o: it returns
\* when the mutex is free
X86Lock(t, o) ==
    /\ ~panicked
    /\ call.pc[t] = "out"
    /\ call.lock = "free"
    /\ call' = [call EXCEPT !.lock = t, !.pc[t] = "locked", !.doing[t] = o]
    /\ UNCHANGED gameVars

\* the tick thread, after its sleep
X86TickLock == X86Lock("tick", "advance")

\* a key callback
X86KeyLock == \E d \in Direction : X86Lock("ui", d)

\* the draw callback
X86DrawLock == X86Lock("ui", "draw")

\* the operation of thread t begins: it reads the game
X86Begin(t) ==
    /\ ~panicked
    /\ call.pc[t] = "locked"
    /\ call' = [call EXCEPT !.pc[t] = "inside", !.seen[t] = X86Fields]
    /\ UNCHANGED gameVars

\* what operation o makes of the fields s, with the random source yielding
\* the pair r if it is read
x86_outcomes(s, o, r) ==
    CASE o = "advance" ->
            LET a == legacy_advance(s, width, height, r)
            IN  {[after |-> a.after, ret |-> a.ret, panic |-> (a.ret = "panic")]}
      [] o = "draw" ->
            UNION {board_outcomes(s, width, height, c) : c \in Builds(s)}
      [] OTHER ->
            {[after |-> legacy_request(s, o), ret |-> "none", panic |-> FALSE]}

\* the operation of thread t ends: the game is written, for what was read
X86End(t) ==
    /\ ~panicked
    /\ call.pc[t] = "inside"
    /\ LET s == call.seen[t]
           o == call.doing[t]
           reads == o = "advance" /\
                    legacy_advance(s, width, height,
                                   <<<<0, 0>>, <<0, 0>>>>).after.rng # s.rng
       IN  \E r \in (IF reads THEN RandVals \X RandVals
                              ELSE {<<<<0, 0>>, <<0, 0>>>>}) :
           \E e \in x86_outcomes(s, o, r) :
              /\ snake' = e.after.snake
              /\ snake_size' = e.after.snake_size
              /\ current_direction' = e.after.direction
              /\ next_direction' = e.after.direction
              /\ fruit' = e.after.fruit
              /\ status' = e.after.status
              /\ rng' = e.after.rng
              /\ panicked' = e.panic
              /\ ret' = e.ret
              /\ op' = IF o \in Direction THEN "set_direction"
                       ELSE IF o = "draw" THEN "board" ELSE o
              /\ pre' = Snapshot
    /\ call' = [call EXCEPT !.pc[t] = "finished", !.seen[t] = NothingSeen]
    /\ UNCHANGED <<width, height>>

\* the guard of thread t is dropped, at the end of the statement or of the
\* callback
X86Unlock(t) ==
    /\ ~panicked
    /\ call.pc[t] = "finished"
    /\ call' = [call EXCEPT !.lock = "free", !.pc[t] = "out", !.doing[t] = "none"]
    /\ UNCHANGED gameVars

X86Operate == \E t \in Threads : X86Begin(t) \/ X86End(t)

X86Release == \E t \in Threads : X86Unlock(t)

NextX86 == X86TickLock \/ X86KeyLock \/ X86DrawLock \/ X86Operate \/ X86Release

SpecX86 == InitX86 /\ [][NextX86]_vars

\* C35: in the x86 adapter a thread is at an engine operation (advance, a
\* direction call, or board() and the reading of its cells) only while it
\* holds the mutex, at most one thread at a time; and during an operation no
\* other operation changes the game: the game is as the operation read it,
\* so that each operation acts as one step on the game.
C35_OperationsHoldTheMutex ==
    call.fn = "x86" =>
        /\ \A t \in Threads : (call.pc[t] # "out") => (call.lock = t)
        /\ \A t, u \in Threads : (call.pc[t] # "out" /\ call.pc[u] # "out") => (t = u)
        /\ \A t \in Threads : (call.pc[t] = "inside") => (call.seen[t] = X86Fields)
        /\ (call.lock # "free") => (call.pc[call.lock] # "out")

\* the draw callback is in the middle of its operation, holding the mutex,
\* after advance() and a key have changed the game
C35_Witness ==
    /\ call.fn = "x86"
    /\ call.pc["ui"] = "inside"
    /\ call.doing["ui"] = "draw"
    /\ call.pc["tick"] = "out"
    /\ call.lock = "ui"
    /\ op = "advance"
    /\ snake_size >= 3
    /\ current_direction # "Right"

=============================================================================
